---- MODULE Spec2Model ----
(***************************************************************************)
(* Transcription orchestration of the Atasa blog API.                      *)
(*                                                                         *)
(* The repository holds several snapshots of the same service.  The model  *)
(* keeps one store (youtube_videos, posts, settings) and translates the    *)
(* background job of each snapshot:                                        *)
(*   p000  src/unnamed/part_000  startTranscription + checkAutoBlogCreation*)
(*   p001  src/unnamed/part_001  inline job, cobalt/vevioz + AssemblyAI    *)
(*   p002  src/unnamed/part_002  inline job, yt-dlp + AssemblyAI upload    *)
(* Every await of the source is one step of a run.                         *)
(***************************************************************************)
EXTENDS Integers, Sequences, FiniteSets, TLC

\* ---------------------------------------------------------------- bounds
MaxRuns == 2        \* background jobs started in one behaviour
MaxStall == 1       \* non-terminal answers a provider gives before a terminal one
MaxPosts == 2       \* rows the posts table can receive
MaxImages == 11     \* imageUrls.length of a publishCarousel call
MaxWait == 2        \* maxAttempts of a direct waitForContainerReady call

\* ------------------------------------------------------ program constants
MaxAttempts == 120  \* while (!completed && attempts < 120)
MaxExtractAttempts == 60   \* extract-audio: while (!completed && attempts < 60)
NullId == 0         \* SQL NULL of blog_post_id (SERIAL ids start at 1)
DefaultMaxAttempts == 30   \* waitForContainerReady(..., maxAttempts = 30, delayMs = 2000)
MinImages == 2      \* if (!imageUrls || imageUrls.length < 2) throw
MaxCarousel == 10   \* if (imageUrls.length > 10) throw
Absent == -1        \* imageUrls is undefined or null

NULL == "NULL"      \* SQL NULL / JS undefined of a text column
VideoIds == {"v1", "v2"}
Runs == 1..MaxRuns
Providers == {"openai"}
Texts == {NULL, "", "hello"}           \* statusData.transcript / req.body.transcript
Statuses == {"pending", "processing", "completed", "failed"}

VARIABLES
  video,      \* youtube_videos: id -> row
  posts,      \* posts: set of rows [id, video_id]
  nextPostId, \* posts.id SERIAL
  settings,   \* settings: key -> value
  pending,    \* second statements of request handlers not yet executed
  run,        \* background job r: program counter and locals
  hist,       \* history of job r (not read by the program)
  vhist,      \* history of video v (not read by the program)
  env,        \* the deployment: snapshot, caller discipline, provider patience
  catalog,    \* youtube_videos: the ids that have a row
  scan,       \* autoScanVideos call s: program counter and locals
  ig,         \* the Instagram publisher call: program counter and locals
  sched,      \* posts: the publication columns of each row, and the clock
  pub         \* POST /api/instagram/publish/:carouselId: the call and the rows it reads

vars == <<video, posts, nextPostId, settings, pending, run, hist, vhist, env, catalog, scan, ig,
          sched, pub>>

\* ------------------------------------------------------------------ rows
\* CREATE TABLE youtube_videos: the columns the orchestration touches.
NewVideo ==
  [title |-> NULL, audio_url |-> NULL, audio_status |-> "pending",
   transcript |-> NULL, transcript_status |-> "pending",
   transcript_job_id |-> NULL, transcript_model |-> NULL,
   transcript_updated_at |-> FALSE,
   blog_created |-> FALSE, blog_post_id |-> NullId]

IdleRun ==
  [pc |-> "idle", vid |-> "v1", provider |-> "openai", attempts |-> 0,
   completed |-> FALSE, jobId |-> NULL, text |-> NULL, postId |-> NullId,
   audioUrl |-> NULL, audioOk |-> FALSE, backend |-> 0, caller |-> "none"]

NewHist ==
  [polls |-> 0, termWrites |-> 0, wroteCompleted |-> FALSE, failedAfterCompleted |-> FALSE,
   blogCalls |-> 0, sawTranscribing |-> FALSE, outcome |-> "none", tried |-> <<>>, result |-> NULL,
   submits |-> 0, audioBefore |-> FALSE, bulk |-> FALSE, kind |-> "transcribe",
   exhausted |-> FALSE, rejected |-> FALSE, polled |-> {},
   sawAuto |-> "unread", sawRow |-> [blog_created |-> FALSE, transcript |-> NULL],
   blogFailed |-> FALSE,
   provider |-> NULL, text |-> NULL]

NewVHist == [autoPosts |-> 0, blogUps |-> 0, deleted |-> FALSE, autoStarts |-> 0]

Scans == 1..2
IdleScan ==
  [pc |-> "idle", src |-> "none", found |-> {}, existing |-> {}, new |-> {}, todo |-> {},
   waitsFor |-> 0]

IdleIg ==
  [pc |-> "idle", op |-> "none", n |-> Absent, made |-> 0, waiting |-> 0, i |-> 0,
   maxAttempts |-> DefaultMaxAttempts, checks |-> 0, status |-> "none", ret |-> "none",
   called |-> FALSE, result |-> "none", log |-> <<>>]

\* posts: no row; CURRENT_TIMESTAMP is minute 0; no PUT /api/posts/:id is between its
\* SELECT and its UPDATE
IdleSched == [rows |-> <<>>, now |-> 0, edit |-> <<>>]

\* POST /api/instagram/publish/:carouselId has not been requested
IdlePub ==
  [pc |-> "idle", tenant |-> "none", carousel |-> FALSE, slides |-> Absent, response |-> 0,
   row |-> [status |-> "none", ig_media_id |-> NULL],
   before |-> [status |-> "none", ig_media_id |-> NULL]]

Inc(n) == IF n < 2 THEN n + 1 ELSE 2          \* history counters saturate at 2

InFlight(r) == run[r].pc \notin {"idle", "done"}
JobOf(r) == IF r = 1 THEN "J1" ELSE IF r = 2 THEN "J2" ELSE "J3"

StoreVars == <<video, posts, nextPostId, settings, pending, vhist>>

\* Jobs are numbered in the order in which they are started.
NextSlot(r) == run[r].pc = "idle" /\ \A q \in Runs : q < r => run[q].pc # "idle"

\* The callers' discipline (spec section 5): with env.overlap = FALSE no request
\* for a video is made while a job for that video is in flight.
CallerMay(v) == env.overlap \/ \A q \in Runs : InFlight(q) => run[q].vid # v

\* ------------------------------------------------- p000 startTranscription
\* The function returns: the job has settled.
Settle(rr) == [IdleRun EXCEPT !.pc = "done", !.vid = rr.vid]

\* throw ... inside the try: control is in the catch block, whose UPDATE is issued.
Throw(rr) == [rr EXCEPT !.pc = "catch"]

\* Mutant of LoopHead: the throw after the loop is not guarded by !completed.
LoopHeadThrowsAlways(rr) ==
  IF ~rr.completed /\ rr.attempts < MaxAttempts THEN [rr EXCEPT !.pc = "sleep"] ELSE Throw(rr)

\* while (!completed && attempts < 120) { await sleep ... }
\* if (!completed) throw new Error('Transcription timeout')
LoopHead(rr) ==
  IF rr.completed THEN Settle(rr)
  ELSE IF rr.attempts < MaxAttempts THEN [rr EXCEPT !.pc = "sleep"]
  ELSE Throw(rr)

LoopOutcome(rr, h) ==
  IF ~rr.completed /\ rr.attempts >= MaxAttempts THEN [h EXCEPT !.outcome = "timeout"] ELSE h

\* History of a job that starts on video v: was the audio of v already completed,
\* with no other job for v in flight (a prior, independent extraction)?
StartHist(v, bulk) ==
  [NewHist EXCEPT !.bulk = bulk,
                  !.audioBefore = /\ video[v].audio_status = "completed"
                                  /\ \A q \in Runs : InFlight(q) => run[q].vid # v]

\* POST /api/youtube/videos/:id/transcribe: acknowledges, then calls
\* startTranscription without awaiting it.
Transcribe(r, v, p) ==
  /\ env.variant = "p000"
  /\ NextSlot(r)
  /\ CallerMay(v)
  /\ run' = [run EXCEPT ![r] = [IdleRun EXCEPT !.pc = "start", !.vid = v, !.provider = p]]
  /\ hist' = [hist EXCEPT ![r] = [StartHist(v, FALSE) EXCEPT !.provider = p]]
  /\ UNCHANGED <<StoreVars, env, sched, pub, catalog, scan, ig>>

\* POST /api/youtube/videos/bulk-transcribe: for (const videoId of videoIds)
\* startTranscription(videoId, ...), none awaited.  ids maps the slots the jobs
\* get to the requested video ids (an id may occur twice).
BulkTranscribe(ids, p) ==
  /\ env.variant = "p000"
  /\ Cardinality(DOMAIN ids) >= 2
  /\ \E r \in DOMAIN ids : NextSlot(r) /\ DOMAIN ids = r..(r + Cardinality(DOMAIN ids) - 1)
  /\ \A r \in DOMAIN ids : CallerMay(ids[r])
  /\ env.overlap \/ \A r, q \in DOMAIN ids : r # q => ids[r] # ids[q]
  /\ run' = [r \in Runs |->
               IF r \in DOMAIN ids
               THEN [IdleRun EXCEPT !.pc = "start", !.vid = ids[r], !.provider = p]
               ELSE run[r]]
  /\ hist' = [r \in Runs |-> IF r \in DOMAIN ids THEN [StartHist(ids[r], TRUE) EXCEPT !.provider = p]
                             ELSE hist[r]]
  /\ UNCHANGED <<StoreVars, env, sched, pub, catalog, scan, ig>>

\* Mutant of MarkProcessing: audio_status is not reset.
MarkProcessingKeepsAudio(r) ==
  /\ run[r].pc = "start"
  /\ video' = [video EXCEPT ![run[r].vid].transcript_status = "processing"]
  /\ run' = [run EXCEPT ![r].pc = "submit"]
  /\ UNCHANGED <<posts, nextPostId, settings, pending, vhist, hist, env, sched, pub, catalog, scan, ig>>

\* UPDATE ... SET transcript_status = 'processing', audio_status = 'processing'
MarkProcessing(r) ==
  /\ run[r].pc = "start"
  /\ video' = [video EXCEPT ![run[r].vid].transcript_status = "processing",
                            ![run[r].vid].audio_status = "processing"]
  /\ run' = [run EXCEPT ![r].pc = "submit"]
  /\ UNCHANGED <<posts, nextPostId, settings, pending, vhist, hist, env, sched, pub, catalog, scan, ig>>

\* fetch(AUDIO_PROCESSOR_URL/transcribe); if (!transcribeData.success) throw
\* (SubmitFails: an error payload, or the fetch / response.json() throws)
SubmitOk(r) ==
  /\ run[r].pc = "submit"
  /\ run' = [run EXCEPT ![r].pc = "saveJob", ![r].jobId = JobOf(r)]
  /\ hist' = [hist EXCEPT ![r].submits = Inc(@)]
  /\ UNCHANGED <<StoreVars, env, sched, pub, catalog, scan, ig>>

SubmitFails(r) ==
  /\ run[r].pc = "submit"
  /\ hist' = [hist EXCEPT ![r].outcome = "failed", ![r].rejected = TRUE]
  /\ run' = [run EXCEPT ![r] = Throw(@)]
  /\ UNCHANGED <<StoreVars, env, sched, pub, catalog, scan, ig>>

\* UPDATE ... SET transcript_job_id = $1, then the loop is entered
SaveJob(r) ==
  /\ run[r].pc = "saveJob"
  /\ video' = [video EXCEPT ![run[r].vid].transcript_job_id = run[r].jobId]
  /\ run' = [run EXCEPT ![r] = LoopHead(@)]
  /\ hist' = [hist EXCEPT ![r] = LoopOutcome(run[r], @)]
  /\ UNCHANGED <<posts, nextPostId, settings, pending, vhist, env, sched, pub, catalog, scan, ig>>

\* Mutant of Sleep: the status fetch uses the transcript_job_id stored in the row.
SleepPollsStoredJob(r) ==
  /\ run[r].pc = "sleep"
  /\ run' = [run EXCEPT ![r].pc = "poll", ![r].attempts = @ + 1]
  /\ hist' = [hist EXCEPT ![r].polls = IF @ <= MaxAttempts THEN @ + 1 ELSE @,
                          ![r].polled = @ \cup {video[run[r].vid].transcript_job_id}]
  /\ UNCHANGED <<StoreVars, env, sched, pub, catalog, scan, ig>>

\* await new Promise(r => setTimeout(r, 5000)); attempts++; the status fetch is issued
\* for the jobId of this call
Sleep(r) ==
  /\ run[r].pc = "sleep"
  /\ run' = [run EXCEPT ![r].pc = "poll", ![r].attempts = @ + 1]
  /\ hist' = [hist EXCEPT ![r].polls = IF @ <= MaxAttempts THEN @ + 1 ELSE @,
                          ![r].polled = @ \cup {run[r].jobId}]
  /\ UNCHANGED <<StoreVars, env, sched, pub, catalog, scan, ig>>

\* statusData.status === 'completed'
PollCompleted(r) ==
  /\ run[r].pc = "poll"
  /\ \E t \in Texts :
       /\ run' = [run EXCEPT ![r].pc = "writeCompleted", ![r].completed = TRUE, ![r].text = t]
       /\ hist' = [hist EXCEPT ![r].outcome = "completed", ![r].text = t]
  /\ UNCHANGED <<StoreVars, env, sched, pub, catalog, scan, ig>>

\* Mutant of PollFails: the error of one status check is swallowed and the loop goes on.
PollFailsRetries(r) ==
  /\ run[r].pc = "poll"
  /\ hist' = [hist EXCEPT ![r].outcome = "failed"]
  /\ run' = [run EXCEPT ![r] = LoopHead(@)]
  /\ UNCHANGED <<StoreVars, env, sched, pub, catalog, scan, ig>>

\* statusData.status === 'failed', or the fetch / response.json() throws
PollFails(r) ==
  /\ run[r].pc = "poll"
  /\ hist' = [hist EXCEPT ![r].outcome = "failed"]
  /\ run' = [run EXCEPT ![r] = Throw(@)]
  /\ UNCHANGED <<StoreVars, env, sched, pub, catalog, scan, ig>>

\* statusData.status === 'transcribing'
PollTranscribing(r) ==
  /\ run[r].pc = "poll"
  /\ run[r].attempts <= env.patience
  /\ run' = [run EXCEPT ![r].pc = "writeAudio"]
  /\ hist' = [hist EXCEPT ![r].sawTranscribing = TRUE]
  /\ UNCHANGED <<StoreVars, env, sched, pub, catalog, scan, ig>>

\* Mutant of PollOther: a non-terminal answer makes the job submit again.
PollOtherResubmits(r) ==
  /\ run[r].pc = "poll"
  /\ run[r].attempts <= env.patience
  /\ run' = [run EXCEPT ![r].pc = "submit"]
  /\ UNCHANGED <<StoreVars, hist, env, sched, pub, catalog, scan, ig>>

\* any other status ('extracting', 'queued', ...): no branch is taken
PollOther(r) ==
  /\ run[r].pc = "poll"
  /\ run[r].attempts <= env.patience
  /\ run' = [run EXCEPT ![r] = LoopHead(@)]
  /\ hist' = [hist EXCEPT ![r] = LoopOutcome(run[r], @)]
  /\ UNCHANGED <<StoreVars, env, sched, pub, catalog, scan, ig>>

\* Mutant of WriteAudio: the tick also stores an audio url.
WriteAudioSetsUrl(r) ==
  /\ run[r].pc = "writeAudio"
  /\ video' = [video EXCEPT ![run[r].vid].audio_status = "completed",
                            ![run[r].vid].audio_url = "https://processor/audio/id"]
  /\ run' = [run EXCEPT ![r] = LoopHead(@)]
  /\ hist' = [hist EXCEPT ![r] = LoopOutcome(run[r], @)]
  /\ UNCHANGED <<posts, nextPostId, settings, pending, vhist, env, sched, pub, catalog, scan, ig>>

\* UPDATE ... SET audio_status = 'completed' (the 'transcribing' tick)
WriteAudio(r) ==
  /\ run[r].pc = "writeAudio"
  /\ video' = [video EXCEPT ![run[r].vid].audio_status = "completed"]
  /\ run' = [run EXCEPT ![r] = LoopHead(@)]
  /\ hist' = [hist EXCEPT ![r] = LoopOutcome(run[r], @)]
  /\ UNCHANGED <<posts, nextPostId, settings, pending, vhist, env, sched, pub, catalog, scan, ig>>

\* Mutant of CompletedRow: transcript_model is the default provider.
CompletedRowDefaultModel(row, text, model) ==
  [row EXCEPT !.audio_status = "completed", !.transcript = text,
              !.transcript_status = "completed", !.transcript_model = "openai",
              !.transcript_updated_at = TRUE]

\* UPDATE ... SET audio_status = 'completed', transcript = $1,
\*   transcript_status = 'completed', transcript_model = $2, transcript_updated_at = now
\* then checkAutoBlogCreation(videoId) is called: getSetting('auto_blog') is issued
CompletedRow(row, text, model) ==
  [row EXCEPT !.audio_status = "completed", !.transcript = text,
              !.transcript_status = "completed", !.transcript_model = model,
              !.transcript_updated_at = TRUE]

WriteCompleted(r) ==
  /\ run[r].pc = "writeCompleted"
  /\ video' = [video EXCEPT ![run[r].vid] = CompletedRow(@, run[r].text, run[r].provider)]
  /\ run' = [run EXCEPT ![r].pc = "blogAuto"]
  /\ hist' = [hist EXCEPT ![r].termWrites = Inc(@), ![r].wroteCompleted = TRUE]
  /\ UNCHANGED <<posts, nextPostId, settings, pending, vhist, env, sched, pub, catalog, scan, ig>>

\* catch: UPDATE ... SET transcript_status = 'failed', audio_status =
\*   CASE WHEN audio_status = 'processing' THEN 'failed' ELSE audio_status END
\* Mutant of FailedRow: audio_status = 'failed' without the CASE.
FailedRowNoCase(row) ==
  [row EXCEPT !.transcript_status = "failed", !.audio_status = "failed"]

FailedRow(row) ==
  [row EXCEPT !.transcript_status = "failed",
              !.audio_status = IF @ = "processing" THEN "failed" ELSE @]

\* Mutant of Catch: the UPDATE has no WHERE id = $1.
CatchAllRows(r) ==
  /\ run[r].pc = "catch"
  /\ video' = [v \in VideoIds |-> FailedRow(video[v])]
  /\ run' = [run EXCEPT ![r] = Settle(@)]
  /\ hist' = [hist EXCEPT ![r].termWrites = Inc(@),
                          ![r].failedAfterCompleted = hist[r].wroteCompleted]
  /\ UNCHANGED <<posts, nextPostId, settings, pending, vhist, env, sched, pub, catalog, scan, ig>>

Catch(r) ==
  /\ run[r].pc = "catch"
  /\ video' = [video EXCEPT ![run[r].vid] = FailedRow(@)]
  /\ run' = [run EXCEPT ![r] = Settle(@)]
  /\ hist' = [hist EXCEPT ![r].termWrites = Inc(@),
                          ![r].failedAfterCompleted = hist[r].wroteCompleted]
  /\ UNCHANGED <<posts, nextPostId, settings, pending, vhist, env, sched, pub, catalog, scan, ig>>

\* ------------------------------------------------- p000 extract-audio
\* POST /api/youtube/videos/:id/extract-audio: the UPDATE below is issued
ExtractOnly(r, v) ==
  /\ env.variant = "p000"
  /\ NextSlot(r)
  /\ CallerMay(v)
  /\ run' = [run EXCEPT ![r] = [IdleRun EXCEPT !.pc = "eStart", !.vid = v, !.caller = "extract"]]
  /\ hist' = [hist EXCEPT ![r] = [StartHist(v, FALSE) EXCEPT !.kind = "extract"]]
  /\ UNCHANGED <<StoreVars, env, sched, pub, catalog, scan, ig>>

\* UPDATE ... SET audio_status = 'processing'; the response is sent and the
\* background function issues fetch(AUDIO_PROCESSOR_URL/extract)
ExtractOnlyMark(r) ==
  /\ run[r].pc = "eStart"
  /\ video' = [video EXCEPT ![run[r].vid].audio_status = "processing"]
  /\ run' = [run EXCEPT ![r].pc = "eSubmit"]
  /\ UNCHANGED <<posts, nextPostId, settings, pending, vhist, hist, env, sched, pub, catalog, scan, ig>>

\* while (!completed && attempts < 60) { ... }  if (!completed) throw
ExtractLoopHead(rr) ==
  IF rr.completed THEN Settle(rr)
  ELSE IF rr.attempts < MaxExtractAttempts THEN [rr EXCEPT !.pc = "eSleep"]
  ELSE [rr EXCEPT !.pc = "eCatch"]

ExtractLoopOutcome(rr, h) ==
  IF ~rr.completed /\ rr.attempts >= MaxExtractAttempts
  THEN [h EXCEPT !.outcome = "timeout"] ELSE h

\* extractData.success: const jobId = extractData.jobId, the loop is entered
ExtractSubmitOk(r) ==
  /\ run[r].pc = "eSubmit"
  /\ run' = [run EXCEPT ![r] = ExtractLoopHead([@ EXCEPT !.jobId = JobOf(r)])]
  /\ hist' = [hist EXCEPT ![r].submits = Inc(@)]
  /\ UNCHANGED <<StoreVars, env, sched, pub, catalog, scan, ig>>

\* if (!extractData.success) throw, or the fetch / response.json() throws
ExtractSubmitFails(r) ==
  /\ run[r].pc = "eSubmit"
  /\ run' = [run EXCEPT ![r].pc = "eCatch"]
  /\ hist' = [hist EXCEPT ![r].outcome = "failed", ![r].rejected = TRUE]
  /\ UNCHANGED <<StoreVars, env, sched, pub, catalog, scan, ig>>

\* await new Promise(r => setTimeout(r, 5000)); attempts++; the status fetch is issued
ExtractSleep(r) ==
  /\ run[r].pc = "eSleep"
  /\ run' = [run EXCEPT ![r].pc = "ePoll", ![r].attempts = @ + 1]
  /\ hist' = [hist EXCEPT ![r].polls = IF @ <= MaxAttempts THEN @ + 1 ELSE @,
                          ![r].polled = @ \cup {run[r].jobId}]
  /\ UNCHANGED <<StoreVars, env, sched, pub, catalog, scan, ig>>

\* statusData.status === 'completed'
ExtractPollCompleted(r) ==
  /\ run[r].pc = "ePoll"
  /\ run' = [run EXCEPT ![r].pc = "eSave", ![r].completed = TRUE,
                        ![r].audioUrl = "https://processor/audio/id"]
  /\ hist' = [hist EXCEPT ![r].outcome = "extracted"]
  /\ UNCHANGED <<StoreVars, env, sched, pub, catalog, scan, ig>>

\* statusData.status === 'failed', or the fetch / response.json() throws
ExtractPollFails(r) ==
  /\ run[r].pc = "ePoll"
  /\ run' = [run EXCEPT ![r].pc = "eCatch"]
  /\ hist' = [hist EXCEPT ![r].outcome = "failed"]
  /\ UNCHANGED <<StoreVars, env, sched, pub, catalog, scan, ig>>

\* any other status: the loop condition is tested again
ExtractPollOther(r) ==
  /\ run[r].pc = "ePoll"
  /\ run[r].attempts <= env.patience
  /\ run' = [run EXCEPT ![r] = ExtractLoopHead(@)]
  /\ hist' = [hist EXCEPT ![r] = ExtractLoopOutcome(run[r], @)]
  /\ UNCHANGED <<StoreVars, env, sched, pub, catalog, scan, ig>>

\* UPDATE ... SET audio_url = $1, audio_status = 'completed'
ExtractSave(r) ==
  /\ run[r].pc = "eSave"
  /\ video' = [video EXCEPT ![run[r].vid].audio_url = run[r].audioUrl,
                            ![run[r].vid].audio_status = "completed"]
  /\ run' = [run EXCEPT ![r] = ExtractLoopHead(@)]
  /\ UNCHANGED <<posts, nextPostId, settings, pending, vhist, hist, env, sched, pub, catalog, scan, ig>>

\* Mutant of ExtractOnlyCatch: the catch also fails the transcript.
ExtractOnlyCatchFailsBoth(r) ==
  /\ run[r].pc = "eCatch"
  /\ video' = [video EXCEPT ![run[r].vid] = FailedRowNoCase(@)]
  /\ run' = [run EXCEPT ![r] = Settle(@)]
  /\ UNCHANGED <<posts, nextPostId, settings, pending, vhist, hist, env, sched, pub, catalog, scan, ig>>

\* catch: UPDATE ... SET audio_status = 'failed'
ExtractOnlyCatch(r) ==
  /\ run[r].pc = "eCatch"
  /\ video' = [video EXCEPT ![run[r].vid].audio_status = "failed"]
  /\ run' = [run EXCEPT ![r] = Settle(@)]
  /\ UNCHANGED <<posts, nextPostId, settings, pending, vhist, hist, env, sched, pub, catalog, scan, ig>>

\* --------------------------------------------- p000 checkAutoBlogCreation
\* getSetting(key): result.rows[0]?.value || null
getSetting(key) == IF settings[key] = "" THEN NULL ELSE settings[key]

\* Mutant of BlogReturn: the catch of checkAutoBlogCreation rethrows.
BlogReturnRethrows(rr) == Throw(rr)

\* return from checkAutoBlogCreation (also from its catch): back in the loop body
BlogReturn(rr) == LoopHead(rr)

\* const autoBlog = await getSetting('auto_blog'); if (autoBlog !== 'true') return
BlogAuto(r) ==
  /\ run[r].pc = "blogAuto"
  /\ run' = [run EXCEPT ![r] = IF getSetting("auto_blog") # "true"
                                THEN BlogReturn(@) ELSE [@ EXCEPT !.pc = "blogKey"]]
  /\ hist' = [hist EXCEPT ![r].sawAuto = getSetting("auto_blog")]
  /\ UNCHANGED <<StoreVars, env, sched, pub, catalog, scan, ig>>

\* const openaiApiKey = await getSetting('openai_api_key'); if (!openaiApiKey) return
BlogKey(r) ==
  /\ run[r].pc = "blogKey"
  /\ run' = [run EXCEPT ![r] = IF getSetting("openai_api_key") = NULL
                                THEN BlogReturn(@) ELSE [@ EXCEPT !.pc = "blogSelect"]]
  /\ UNCHANGED <<StoreVars, hist, env, sched, pub, catalog, scan, ig>>

\* SELECT * FROM youtube_videos; if (!video.transcript || video.blog_created) return
\* otherwise the prompt settings are read and the generation request is issued
\* Mutant of BlogGuard: video.blog_created is not tested.
BlogGuardIgnoresFlag(row) == row.transcript \notin {NULL, ""}

BlogGuard(row) == row.transcript \notin {NULL, ""} /\ ~row.blog_created

SeenRow(v) == [blog_created |-> video[v].blog_created, transcript |-> video[v].transcript]

BlogSelect(r) ==
  /\ run[r].pc = "blogSelect"
  /\ IF BlogGuard(video[run[r].vid])
     THEN /\ run' = [run EXCEPT ![r].pc = "blogGen"]
          /\ hist' = [hist EXCEPT ![r].blogCalls = Inc(@), ![r].sawRow = SeenRow(run[r].vid)]
     ELSE /\ run' = [run EXCEPT ![r] = BlogReturn(@)]
          /\ hist' = [hist EXCEPT ![r].sawRow = SeenRow(run[r].vid)]
  /\ UNCHANGED <<StoreVars, env, sched, pub, catalog, scan, ig>>

\* fetch(api.openai.com/v1/chat/completions); if (data.error) throw; on success
\* auto_publish is read and the INSERT INTO posts is issued
BlogGenOk(r) ==
  /\ run[r].pc = "blogGen"
  /\ run' = [run EXCEPT ![r].pc = "blogInsert"]
  /\ UNCHANGED <<StoreVars, hist, env, sched, pub, catalog, scan, ig>>

BlogGenFails(r) ==
  /\ run[r].pc = "blogGen"
  /\ run' = [run EXCEPT ![r] = BlogReturn(@)]
  /\ hist' = [hist EXCEPT ![r].blogFailed = TRUE]
  /\ UNCHANGED <<StoreVars, env, sched, pub, catalog, scan, ig>>

\* INSERT INTO posts (..., video_id) VALUES (...) RETURNING *
BlogInsertOk(r) ==
  /\ run[r].pc = "blogInsert"
  /\ nextPostId <= MaxPosts
  /\ posts' = posts \cup {[id |-> nextPostId, video_id |-> run[r].vid]}
  /\ nextPostId' = nextPostId + 1
  /\ run' = [run EXCEPT ![r].pc = "blogMark", ![r].postId = nextPostId]
  /\ vhist' = [vhist EXCEPT ![run[r].vid].autoPosts = Inc(@)]
  /\ UNCHANGED <<video, settings, pending, hist, env, sched, pub, catalog, scan, ig>>

\* the INSERT is rejected (slug UNIQUE, connection): caught and logged
BlogInsertFails(r) ==
  /\ run[r].pc = "blogInsert"
  /\ run' = [run EXCEPT ![r] = BlogReturn(@)]
  /\ hist' = [hist EXCEPT ![r].blogFailed = TRUE]
  /\ UNCHANGED <<StoreVars, env, sched, pub, catalog, scan, ig>>

\* UPDATE youtube_videos SET blog_created = TRUE, blog_post_id = $1
MarkBlog(v, id) ==
  /\ video' = [video EXCEPT ![v].blog_created = TRUE, ![v].blog_post_id = id]
  /\ vhist' = [vhist EXCEPT ![v].blogUps = IF video[v].blog_created THEN @ ELSE Inc(@)]

BlogMark(r) ==
  /\ run[r].pc = "blogMark"
  /\ MarkBlog(run[r].vid, run[r].postId)
  /\ run' = [run EXCEPT ![r] = BlogReturn(@)]
  /\ UNCHANGED <<posts, nextPostId, settings, pending, hist, env, sched, pub, catalog, scan, ig>>

\* ------------------------------------------------------ request handlers
\* PUT /api/youtube/videos/:id/transcript: status || 'completed'
PutTranscript(v, transcript, model, status) ==
  /\ CallerMay(v)
  /\ video' = [video EXCEPT ![v].transcript = transcript, ![v].transcript_model = model,
                            ![v].transcript_status = IF status = NULL THEN "completed" ELSE status,
                            ![v].transcript_updated_at = TRUE]
  /\ UNCHANGED <<posts, nextPostId, settings, pending, run, hist, vhist, env, sched, pub, catalog, scan, ig>>

\* PUT /api/youtube/videos/:id/blog-created
PutBlogCreated(v, blogPostId) ==
  /\ MarkBlog(v, blogPostId)
  /\ UNCHANGED <<posts, nextPostId, settings, pending, run, hist, env, sched, pub, catalog, scan, ig>>

\* POST /api/posts: INSERT INTO posts ...; if (videoId) the UPDATE of the video follows
CreatePost(videoId) ==
  /\ nextPostId <= MaxPosts
  /\ posts' = posts \cup {[id |-> nextPostId, video_id |-> videoId]}
  /\ nextPostId' = nextPostId + 1
  /\ pending' = IF videoId = NULL THEN pending
                ELSE pending \cup {[op |-> "mark", vid |-> videoId, post |-> nextPostId]}
  /\ UNCHANGED <<video, settings, run, hist, vhist, env, sched, pub, catalog, scan, ig>>

\* DELETE /api/posts/:id: DELETE ... RETURNING title, video_id; if (video_id) the reset follows
DeletePost(id) ==
  /\ \E p \in posts :
       /\ p.id = id
       /\ posts' = posts \ {p}
       /\ pending' = IF p.video_id = NULL THEN pending
                     ELSE pending \cup {[op |-> "reset", vid |-> p.video_id, post |-> id]}
  /\ UNCHANGED <<video, nextPostId, settings, run, hist, vhist, env, sched, pub, catalog, scan, ig>>

\* the second statement of POST /api/posts
PostMarksVideo(m) ==
  /\ m \in pending /\ m.op = "mark"
  /\ MarkBlog(m.vid, m.post)
  /\ pending' = pending \ {m}
  /\ UNCHANGED <<posts, nextPostId, settings, run, hist, env, sched, pub, catalog, scan, ig>>

\* the second statement of DELETE /api/posts/:id:
\* UPDATE youtube_videos SET blog_created = FALSE, blog_post_id = NULL
DeleteResetsVideo(m) ==
  /\ m \in pending /\ m.op = "reset"
  /\ video' = [video EXCEPT ![m.vid].blog_created = FALSE, ![m.vid].blog_post_id = NullId]
  /\ vhist' = [vhist EXCEPT ![m.vid].deleted = TRUE]
  /\ pending' = pending \ {m}
  /\ UNCHANGED <<posts, nextPostId, settings, run, hist, env, sched, pub, catalog, scan, ig>>

\* PUT /api/settings: INSERT ... ON CONFLICT (key) DO UPDATE SET value = String(value)
PutSettings(key, value) ==
  /\ settings[key] # value
  /\ settings' = [settings EXCEPT ![key] = value]
  /\ UNCHANGED <<video, posts, nextPostId, pending, run, hist, vhist, env, sched, pub, catalog, scan, ig>>

\* ----------------------------------- p001 / p002 audio extraction and job
\* A provider with this patience never has to give a terminal answer: the history
\* counter of status checks stops at MaxAttempts + 1.
Forever == MaxAttempts + 1

\* getYouTubeAudioUrl tries its sources in the order of the two try blocks:
\* p001 cobalt.tools, then vevioz; p002 yt-dlp --get-url, then the yt-dlp download.
Backends(variant) ==
  IF variant = "p001" THEN <<"cobalt", "vevioz">> ELSE <<"ytdlp-url", "ytdlp-file">>

\* what a source returns: cobaltData.url, match[1], stdout.trim(), file://outputPath
UrlOf(b) ==
  CASE b = "cobalt" -> "https://cobalt/a.mp3"
    [] b = "vevioz" -> "https://vevioz/a.mp3"
    [] b = "ytdlp-url" -> "https://googlevideo/a"
    [] OTHER -> "file:///tmp/a.mp3"

\* POST /api/youtube/videos/:id/transcribe: the SELECT of the video row is issued
LegacyTranscribe(r, v) ==
  /\ env.variant \in {"p001", "p002"}
  /\ NextSlot(r)
  /\ CallerMay(v)
  /\ run' = [run EXCEPT ![r] = [IdleRun EXCEPT !.pc = "select", !.vid = v,
                                               !.caller = "transcribe"]]
  /\ hist' = [hist EXCEPT ![r] = [StartHist(v, FALSE) EXCEPT !.provider = "assemblyai"]]
  /\ UNCHANGED <<StoreVars, env, sched, pub, catalog, scan, ig>>

\* const video = videoResult.rows[0]  (p001 reads audio_url and audio_status of it later)
LegacySelect(r) ==
  /\ run[r].pc = "select"
  /\ run' = [run EXCEPT ![r].pc = "start",
                        ![r].audioUrl = video[run[r].vid].audio_url,
                        ![r].audioOk = /\ video[run[r].vid].audio_url \notin {NULL, ""}
                                       /\ video[run[r].vid].audio_status = "completed"]
  /\ UNCHANGED <<StoreVars, hist, env, sched, pub, catalog, scan, ig>>

\* p001: UPDATE ... SET transcript_status = 'processing'; then
\*       if (!audioUrl || video.audio_status !== 'completed') getYouTubeAudioUrl
\* p002: UPDATE ... SET transcript_status = 'processing', audio_status = 'processing';
\*       then the yt-dlp download is started
LegacyMarkProcessing(r) ==
  /\ run[r].pc = "start"
  /\ video' = [video EXCEPT
                 ![run[r].vid].transcript_status = "processing",
                 ![run[r].vid].audio_status = IF env.variant = "p002" THEN "processing" ELSE @]
  /\ run' = [run EXCEPT ![r] =
               IF env.variant = "p002" THEN [@ EXCEPT !.pc = "download"]
               ELSE IF @.audioOk THEN [@ EXCEPT !.pc = "submit"]
               ELSE [@ EXCEPT !.pc = "backend", !.backend = 1]]
  /\ UNCHANGED <<posts, nextPostId, settings, pending, vhist, hist, env, sched, pub, catalog, scan, ig>>

\* POST /api/youtube/videos/:id/extract-audio
ExtractAudio(r, v) ==
  /\ env.variant \in {"p001", "p002"}
  /\ NextSlot(r)
  /\ CallerMay(v)
  /\ run' = [run EXCEPT ![r] = [IdleRun EXCEPT !.pc = "xstart", !.vid = v, !.caller = "extract"]]
  /\ hist' = [hist EXCEPT ![r] = [StartHist(v, FALSE) EXCEPT !.kind = "extract"]]
  /\ UNCHANGED <<StoreVars, env, sched, pub, catalog, scan, ig>>

\* UPDATE ... SET audio_status = 'processing'; then getYouTubeAudioUrl(videoId)
ExtractMarkProcessing(r) ==
  /\ run[r].pc = "xstart"
  /\ video' = [video EXCEPT ![run[r].vid].audio_status = "processing"]
  /\ run' = [run EXCEPT ![r].pc = "backend", ![r].backend = 1]
  /\ UNCHANGED <<posts, nextPostId, settings, pending, vhist, hist, env, sched, pub, catalog, scan, ig>>

\* Mutant of BackendSucceeds: the return is missing, the next source is tried.
BackendSucceedsNoReturn(r) ==
  /\ run[r].pc = "backend"
  /\ LET b == Backends(env.variant)[run[r].backend] IN
       /\ run' = [run EXCEPT ![r].audioUrl = UrlOf(b),
                             ![r].pc = IF run[r].backend < Len(Backends(env.variant))
                                       THEN "backend" ELSE "saveAudio",
                             ![r].backend = IF @ < Len(Backends(env.variant)) THEN @ + 1 ELSE @]
       /\ hist' = [hist EXCEPT ![r].tried = Append(@, b),
                               ![r].result = IF @ = NULL THEN UrlOf(b) ELSE @]
  /\ UNCHANGED <<StoreVars, env, sched, pub, catalog, scan, ig>>

\* a try block of getYouTubeAudioUrl returns the URL of its source
BackendSucceeds(r) ==
  /\ run[r].pc = "backend"
  /\ LET b == Backends(env.variant)[run[r].backend] IN
       /\ run' = [run EXCEPT ![r].audioUrl = UrlOf(b), ![r].pc = "saveAudio"]
       /\ hist' = [hist EXCEPT ![r].tried = Append(@, b), ![r].result = UrlOf(b)]
  /\ UNCHANGED <<StoreVars, env, sched, pub, catalog, scan, ig>>

\* Mutant of BackendFails: the first source that fails makes the function throw.
BackendFailsThrows(r) ==
  /\ run[r].pc = "backend"
  /\ LET b == Backends(env.variant)[run[r].backend] IN
       hist' = [hist EXCEPT ![r].tried = Append(@, b), ![r].exhausted = TRUE,
                            ![r].outcome = "failed"]
  /\ run' = [run EXCEPT ![r] = IF @.caller = "transcribe" THEN Throw(@)
                                ELSE [@ EXCEPT !.pc = "xcatch"]]
  /\ UNCHANGED <<StoreVars, env, sched, pub, catalog, scan, ig>>

\* a try block yields nothing (no url, no match, output not http, no file) or
\* throws: the next block runs; after the last one throw new Error(...)
BackendFails(r) ==
  /\ run[r].pc = "backend"
  /\ LET b == Backends(env.variant)[run[r].backend] IN
       hist' = [hist EXCEPT ![r].tried = Append(@, b),
                            ![r].exhausted = run[r].backend >= Len(Backends(env.variant)),
                            ![r].outcome = IF run[r].backend < Len(Backends(env.variant))
                                           THEN @ ELSE "failed"]
  /\ run' = [run EXCEPT ![r] =
               IF @.backend < Len(Backends(env.variant)) THEN [@ EXCEPT !.backend = @ + 1]
               ELSE IF @.caller = "transcribe" THEN Throw(@)
               ELSE [@ EXCEPT !.pc = "xcatch"]]
  /\ UNCHANGED <<StoreVars, env, sched, pub, catalog, scan, ig>>

\* UPDATE ... SET audio_url = $1, audio_status = 'completed'
SaveAudio(r) ==
  /\ run[r].pc = "saveAudio"
  /\ video' = [video EXCEPT ![run[r].vid].audio_url = run[r].audioUrl,
                            ![run[r].vid].audio_status = "completed"]
  /\ run' = [run EXCEPT ![r] = IF @.caller = "transcribe"
                                THEN [@ EXCEPT !.pc = "submit"] ELSE Settle(@)]
  /\ hist' = [hist EXCEPT ![r].outcome = IF run[r].caller = "extract" THEN "extracted" ELSE @]
  /\ UNCHANGED <<posts, nextPostId, settings, pending, vhist, env, sched, pub, catalog, scan, ig>>

\* extract-audio catch: UPDATE ... SET audio_status = 'failed'
ExtractCatch(r) ==
  /\ run[r].pc = "xcatch"
  /\ video' = [video EXCEPT ![run[r].vid].audio_status = "failed"]
  /\ run' = [run EXCEPT ![r] = Settle(@)]
  /\ UNCHANGED <<posts, nextPostId, settings, pending, vhist, hist, env, sched, pub, catalog, scan, ig>>

\* p002: await execAsync(yt-dlp ... -o outputPath); if (!fs.existsSync(outputPath)) throw
DownloadOk(r) ==
  /\ run[r].pc = "download"
  /\ run' = [run EXCEPT ![r].pc = "audioDone"]
  /\ UNCHANGED <<StoreVars, hist, env, sched, pub, catalog, scan, ig>>

DownloadFails(r) ==
  /\ run[r].pc = "download"
  /\ run' = [run EXCEPT ![r] = Throw(@)]
  /\ hist' = [hist EXCEPT ![r].outcome = "failed"]
  /\ UNCHANGED <<StoreVars, env, sched, pub, catalog, scan, ig>>

\* p002: UPDATE ... SET audio_status = 'completed'; then uploadAudioToAssemblyAI
AudioDone(r) ==
  /\ run[r].pc = "audioDone"
  /\ video' = [video EXCEPT ![run[r].vid].audio_status = "completed"]
  /\ run' = [run EXCEPT ![r].pc = "upload"]
  /\ UNCHANGED <<posts, nextPostId, settings, pending, vhist, hist, env, sched, pub, catalog, scan, ig>>

\* uploadAudioToAssemblyAI: if (data.upload_url) return it; else throw
UploadOk(r) ==
  /\ run[r].pc = "upload"
  /\ run' = [run EXCEPT ![r].pc = "submit", ![r].audioUrl = "https://cdn.assemblyai/upload"]
  /\ UNCHANGED <<StoreVars, hist, env, sched, pub, catalog, scan, ig>>

UploadFails(r) ==
  /\ run[r].pc = "upload"
  /\ run' = [run EXCEPT ![r] = Throw(@)]
  /\ hist' = [hist EXCEPT ![r].outcome = "failed"]
  /\ UNCHANGED <<StoreVars, env, sched, pub, catalog, scan, ig>>

\* fetch(api.assemblyai.com/v2/transcript); if (submitData.error) throw
LegacySubmitOk(r) ==
  /\ run[r].pc = "submit"
  /\ run' = [run EXCEPT ![r].pc = "saveJob", ![r].jobId = JobOf(r)]
  /\ hist' = [hist EXCEPT ![r].submits = Inc(@)]
  /\ UNCHANGED <<StoreVars, env, sched, pub, catalog, scan, ig>>

LegacySubmitFails(r) ==
  /\ run[r].pc = "submit"
  /\ run' = [run EXCEPT ![r] = Throw(@)]
  /\ hist' = [hist EXCEPT ![r].outcome = "failed", ![r].rejected = TRUE]
  /\ UNCHANGED <<StoreVars, env, sched, pub, catalog, scan, ig>>

\* the provider answers with a non-success status whose body has no error member
\* (response.ok is never tested): submitData.error is undefined, nothing is
\* thrown, and const transcriptId = submitData.id is undefined
LegacySubmitUnchecked(r) ==
  /\ run[r].pc = "submit"
  /\ run' = [run EXCEPT ![r].pc = "saveJob", ![r].jobId = NULL]
  /\ hist' = [hist EXCEPT ![r].rejected = TRUE]
  /\ UNCHANGED <<StoreVars, env, sched, pub, catalog, scan, ig>>

\* p001: while (!completed) { ... }                      then the try block ends
\* p002: while (!completed && attempts < maxAttempts) { ... }  then the cleanup
LegacyLoopHead(rr) ==
  IF env.variant = "p001"
  THEN IF rr.completed THEN Settle(rr) ELSE [rr EXCEPT !.pc = "sleep"]
  ELSE IF ~rr.completed /\ rr.attempts < MaxAttempts THEN [rr EXCEPT !.pc = "sleep"]
       ELSE [rr EXCEPT !.pc = "cleanup"]

LegacyLoopOutcome(rr, h) ==
  IF env.variant = "p002" /\ ~rr.completed /\ rr.attempts >= MaxAttempts
  THEN [h EXCEPT !.outcome = "timeout"] ELSE h

\* p001: UPDATE ... SET transcript_job_id = $1
\* p002: UPDATE ... SET transcript_job_id = $1, audio_url = $2
LegacySaveJob(r) ==
  /\ run[r].pc = "saveJob"
  /\ video' = [video EXCEPT
                 ![run[r].vid].transcript_job_id = run[r].jobId,
                 ![run[r].vid].audio_url = IF env.variant = "p002" THEN run[r].audioUrl ELSE @]
  /\ run' = [run EXCEPT ![r] = LegacyLoopHead(@)]
  /\ UNCHANGED <<posts, nextPostId, settings, pending, vhist, hist, env, sched, pub, catalog, scan, ig>>

\* await new Promise(r => setTimeout(r, 5000)); p002: attempts++; the check is issued
LegacySleep(r) ==
  /\ run[r].pc = "sleep"
  /\ run' = [run EXCEPT ![r].pc = "poll",
                        ![r].attempts = IF env.variant = "p002" THEN @ + 1 ELSE @]
  /\ hist' = [hist EXCEPT ![r].polls = IF @ <= MaxAttempts THEN @ + 1 ELSE @]
  /\ UNCHANGED <<StoreVars, env, sched, pub, catalog, scan, ig>>

\* checkData.status === 'completed'
LegacyPollCompleted(r) ==
  /\ run[r].pc = "poll"
  /\ run[r].jobId # NULL          \* /v2/transcript/undefined names no transcript
  /\ \E t \in Texts :
       /\ run' = [run EXCEPT ![r].pc = "writeCompleted", ![r].completed = TRUE, ![r].text = t]
       /\ hist' = [hist EXCEPT ![r].outcome = "completed", ![r].text = t]
  /\ UNCHANGED <<StoreVars, env, sched, pub, catalog, scan, ig>>

\* checkData.status === 'error', or the fetch / response.json() throws
LegacyPollError(r) ==
  /\ run[r].pc = "poll"
  /\ run' = [run EXCEPT ![r] = Throw(@)]
  /\ hist' = [hist EXCEPT ![r].outcome = "failed"]
  /\ UNCHANGED <<StoreVars, env, sched, pub, catalog, scan, ig>>

\* any other status ('queued', 'processing'): the loop condition is tested again
LegacyPollPending(r) ==
  /\ run[r].pc = "poll"
  /\ hist[r].polls <= env.patience
  /\ run' = [run EXCEPT ![r] = LegacyLoopHead(@)]
  /\ hist' = [hist EXCEPT ![r] = LegacyLoopOutcome(run[r], @)]
  /\ UNCHANGED <<StoreVars, env, sched, pub, catalog, scan, ig>>

\* UPDATE ... SET transcript = $1, transcript_status = 'completed',
\*   transcript_model = 'assemblyai', transcript_updated_at = now
LegacyWriteCompleted(r) ==
  /\ run[r].pc = "writeCompleted"
  /\ video' = [video EXCEPT ![run[r].vid].transcript = run[r].text,
                            ![run[r].vid].transcript_status = "completed",
                            ![run[r].vid].transcript_model = "assemblyai",
                            ![run[r].vid].transcript_updated_at = TRUE]
  /\ run' = [run EXCEPT ![r] = LegacyLoopHead(@)]
  /\ hist' = [hist EXCEPT ![r].termWrites = Inc(@), ![r].wroteCompleted = TRUE]
  /\ UNCHANGED <<posts, nextPostId, settings, pending, vhist, env, sched, pub, catalog, scan, ig>>

\* p002: if (fs.existsSync(outputPath)) fs.unlinkSync(outputPath);
\*       if (!completed) throw new Error('Transcription timeout')
CleanupOk(r) ==
  /\ run[r].pc = "cleanup"
  /\ run' = [run EXCEPT ![r] = IF @.completed THEN Settle(@) ELSE Throw(@)]
  /\ UNCHANGED <<StoreVars, hist, env, sched, pub, catalog, scan, ig>>

\* fs.unlinkSync throws (EPERM, EBUSY, EACCES on the temp file): still inside the try
CleanupThrows(r) ==
  /\ run[r].pc = "cleanup"
  /\ run' = [run EXCEPT ![r] = Throw(@)]
  /\ UNCHANGED <<StoreVars, hist, env, sched, pub, catalog, scan, ig>>

\* p001 catch: UPDATE ... SET transcript_status = 'failed'
\* p002 catch: ... and audio_status = CASE WHEN 'processing' THEN 'failed' ELSE audio_status
LegacyCatch(r) ==
  /\ run[r].pc = "catch"
  /\ video' = [video EXCEPT ![run[r].vid] =
                 IF env.variant = "p002" THEN FailedRow(@)
                 ELSE [@ EXCEPT !.transcript_status = "failed"]]
  /\ run' = [run EXCEPT ![r] = Settle(@)]
  /\ hist' = [hist EXCEPT ![r].termWrites = Inc(@),
                          ![r].failedAfterCompleted = hist[r].wroteCompleted]
  /\ UNCHANGED <<posts, nextPostId, settings, pending, vhist, env, sched, pub, catalog, scan, ig>>

\* ------------------------------------------------- p000 autoScanVideos
\* The YouTube search lists the channel's videos newest first; both arrays of a
\* scan (allVideos, newVideos) keep that order.
FirstOf(S) == IF "v1" \in S THEN "v1" ELSE "v2"

\* setTimeout(() => autoScanVideos(), 10000) after app.listen (once), the hourly
\* setInterval whose interval test passed, or POST /api/youtube/scan:
\* getSetting('auto_scan_enabled') is issued
ScanTrigger(s, src) ==
  /\ scan[s].pc = "idle"
  /\ \A q \in Scans : q < s => scan[q].pc # "idle"
  /\ src = "startup" => \A q \in Scans : scan[q].src # "startup"
  /\ scan' = [scan EXCEPT ![s] = [IdleScan EXCEPT !.pc = "enabled", !.src = src]]
  /\ UNCHANGED <<StoreVars, run, hist, env, sched, pub, catalog, ig>>

\* if (autoScanEnabled !== 'true') return; if (!youtubeApiKey) return;
\* then the channel's videos are fetched
ScanEnabled(s) ==
  /\ scan[s].pc = "enabled"
  /\ scan' = [scan EXCEPT ![s].pc =
                 IF getSetting("auto_scan_enabled") = "true"
                    /\ getSetting("youtube_api_key") # NULL
                 THEN "fetch" ELSE "done"]
  /\ UNCHANGED <<StoreVars, run, hist, env, sched, pub, catalog, ig>>

\* allVideos = the items of the search pages; SELECT id FROM youtube_videos is issued
ScanFetch(s, F) ==
  /\ scan[s].pc = "fetch"
  /\ scan' = [scan EXCEPT ![s].pc = "select", ![s].found = F]
  /\ UNCHANGED <<StoreVars, run, hist, env, sched, pub, catalog, ig>>

\* const newVideos = allVideos.filter(v => !existingIds.includes(v.id))
ScanSelect(s) ==
  /\ scan[s].pc = "select"
  /\ scan' = [scan EXCEPT ![s].existing = catalog,
                          ![s].new = scan[s].found \ catalog,
                          ![s].todo = scan[s].found \ catalog,
                          ![s].pc = IF scan[s].found \ catalog = {} THEN "stampEmpty"
                                    ELSE "insert"]
  /\ UNCHANGED <<StoreVars, run, hist, env, sched, pub, catalog, ig>>

\* INSERT INTO youtube_videos (id, title, ...) VALUES ... ON CONFLICT (id) DO NOTHING:
\* the columns that are not listed get their defaults
InsertIfAbsent(row, exists, title) ==
  IF exists THEN row ELSE [NewVideo EXCEPT !.title = title]

\* Mutant of UpsertRow: the conflict branch stores a fresh row.
UpsertRowReplaces(row, exists, title) == [NewVideo EXCEPT !.title = title]

\* INSERT INTO youtube_videos (id, title, ...) VALUES ... ON CONFLICT (id) DO UPDATE SET
\* title = $2, description = $3, ... (the listed columns are the YouTube metadata)
UpsertRow(row, exists, title) ==
  IF exists THEN [row EXCEPT !.title = title] ELSE [NewVideo EXCEPT !.title = title]

Titles == {"a", "b"}

\* POST /api/youtube/videos: one iteration of for (const video of videos)
UpsertVideo(v, title) ==
  /\ video' = [video EXCEPT ![v] = UpsertRow(@, v \in catalog, title)]
  /\ catalog' = catalog \cup {v}
  /\ UNCHANGED <<posts, nextPostId, settings, pending, vhist, run, hist, env, sched, pub, scan, ig>>

\* for (const video of newVideos) INSERT INTO youtube_videos ... ON CONFLICT (id) DO NOTHING
ScanInsert(s) ==
  /\ scan[s].pc = "insert"
  /\ video' = [video EXCEPT ![FirstOf(scan[s].todo)] =
                 InsertIfAbsent(@, FirstOf(scan[s].todo) \in catalog, "a")]
  /\ catalog' = catalog \cup {FirstOf(scan[s].todo)}
  /\ scan' = [scan EXCEPT ![s].todo = @ \ {FirstOf(scan[s].todo)},
                          ![s].pc = IF scan[s].todo = {FirstOf(scan[s].todo)}
                                    THEN "stamp" ELSE "insert"]
  /\ UNCHANGED <<posts, nextPostId, settings, pending, vhist, run, hist, env, sched, pub, ig>>

\* INSERT INTO settings ('last_scan_time', now) ON CONFLICT DO UPDATE; with no new
\* video the function returns, otherwise getSetting('auto_transcribe') is issued
ScanStamp(s) ==
  /\ scan[s].pc \in {"stamp", "stampEmpty"}
  /\ settings' = [settings EXCEPT !["last_scan_time"] = "t"]
  /\ scan' = [scan EXCEPT ![s].pc = IF scan[s].pc = "stamp" THEN "auto" ELSE "done"]
  /\ UNCHANGED <<video, posts, nextPostId, pending, vhist, run, hist, env, sched, pub, catalog, ig>>

\* if (autoTranscribe === 'true') getSetting('openai_api_key') is issued
ScanAuto(s) ==
  /\ scan[s].pc = "auto"
  /\ scan' = [scan EXCEPT ![s].pc = IF getSetting("auto_transcribe") = "true"
                                    THEN "key" ELSE "done"]
  /\ UNCHANGED <<StoreVars, run, hist, env, sched, pub, catalog, ig>>

\* if (openaiApiKey) for (const video of newVideos) ...
ScanKey(s) ==
  /\ scan[s].pc = "key"
  /\ scan' = [scan EXCEPT ![s].pc = IF getSetting("openai_api_key") # NULL
                                    THEN "transcribe" ELSE "done",
                          ![s].todo = scan[s].new]
  /\ UNCHANGED <<StoreVars, run, hist, env, sched, pub, catalog, ig>>

\* await startTranscription(video.id, openaiApiKey, 'openai'): the job r starts
ScanCall(s, r) ==
  /\ scan[s].pc = "transcribe"
  /\ NextSlot(r)
  /\ LET v == FirstOf(scan[s].todo) IN
       /\ run' = [run EXCEPT ![r] = [IdleRun EXCEPT !.pc = "start", !.vid = v,
                                                    !.provider = "openai"]]
       /\ hist' = [hist EXCEPT ![r] = [StartHist(v, FALSE) EXCEPT !.provider = "openai"]]
       /\ vhist' = [vhist EXCEPT ![v].autoStarts = Inc(@)]
       /\ scan' = [scan EXCEPT ![s].pc = "await", ![s].waitsFor = r, ![s].todo = @ \ {v}]
  /\ UNCHANGED <<video, posts, nextPostId, settings, pending, env, sched, pub, catalog, ig>>

\* Mutant of ScanResume: startTranscription is not awaited.
ScanResumeNoWait(s) ==
  /\ scan[s].pc = "await"
  /\ scan' = [scan EXCEPT ![s].pc = IF scan[s].todo = {} THEN "done" ELSE "transcribe",
                          ![s].waitsFor = 0]
  /\ UNCHANGED <<StoreVars, run, hist, env, sched, pub, catalog, ig>>

\* startTranscription has returned: the next video, or the end of autoScanVideos
ScanResume(s) ==
  /\ scan[s].pc = "await"
  /\ run[scan[s].waitsFor].pc = "done"
  /\ scan' = [scan EXCEPT ![s].pc = IF scan[s].todo = {} THEN "done" ELSE "transcribe",
                          ![s].waitsFor = 0]
  /\ UNCHANGED <<StoreVars, run, hist, env, sched, pub, catalog, ig>>

\* ------------------------------------------- part_004 Instagram publisher
\* for (let i = 0; i < maxAttempts; i++) { const status = await checkContainerStatus(...)
\* ... } throw new Error('Container processing timeout')
\* Mutant of WaitLoop: the loop condition is i <= maxAttempts.
WaitLoopOffByOne(g) ==
  IF g.i <= g.maxAttempts
  THEN [g EXCEPT !.pc = "status", !.checks = @ + 1, !.called = TRUE]
  ELSE [g EXCEPT !.pc = "waited", !.ret = "timeout"]

WaitLoop(g) ==
  IF g.i < g.maxAttempts
  THEN [g EXCEPT !.pc = "status", !.checks = @ + 1, !.called = TRUE]
  ELSE [g EXCEPT !.pc = "waited", !.ret = "timeout"]

\* waitForContainerReady is entered for container k (children 1..n, carousel n + 1,
\* 0 for a direct call)
WaitStart(g, k) ==
  WaitLoop([g EXCEPT !.waiting = k, !.i = 0, !.checks = 0, !.status = "none", !.ret = "none"])

\* waitForContainerReady(accessToken, containerId, maxAttempts) called on its own
WaitForContainerReady(m) ==
  /\ ig.pc = "idle"
  /\ ig' = WaitStart([ig EXCEPT !.op = "wait", !.maxAttempts = m], 0)
  /\ UNCHANGED <<StoreVars, run, hist, env, sched, pub, catalog, scan>>

\* Mutant of CarouselGuard: the upper limit is not tested.
CarouselGuardNoMax(n) ==
  IF n = Absent \/ n < MinImages THEN "error:min" ELSE "ok"

\* if (!imageUrls || imageUrls.length < 2) throw ...; if (imageUrls.length > 10) throw ...
CarouselGuard(n) ==
  IF n = Absent \/ n < MinImages THEN "error:min"
  ELSE IF n > MaxCarousel THEN "error:max"
  ELSE "ok"

\* publishCarousel({ accessToken, igUserId, imageUrls, caption }) with n = imageUrls.length;
\* past the guards createMediaContainer(imageUrls[0]) is issued
PublishCarousel(n) ==
  /\ ig.pc = "idle"
  /\ ig' = IF CarouselGuard(n) = "ok"
           THEN [ig EXCEPT !.op = "publish", !.n = n, !.pc = "create", !.called = TRUE]
           ELSE [ig EXCEPT !.op = "publish", !.n = n, !.pc = "done", !.result = CarouselGuard(n)]
  /\ UNCHANGED <<StoreVars, run, hist, env, sched, pub, catalog, scan>>

\* createMediaContainer returns data.id: childContainerIds.push(containerId); after the
\* last image the first waitForContainerReady is entered
CreateChildOk ==
  /\ ig.pc = "create"
  /\ LET g == [ig EXCEPT !.made = @ + 1, !.log = Append(@, "child")]
     IN ig' = IF g.made < g.n THEN g ELSE WaitStart(g, 1)
  /\ UNCHANGED <<StoreVars, run, hist, env, sched, pub, catalog, scan>>

\* createMediaContainer: if (data.error) throw, or the fetch throws
CreateChildFails ==
  /\ ig.pc = "create"
  /\ ig' = [ig EXCEPT !.pc = "done", !.result = "error:api"]
  /\ UNCHANGED <<StoreVars, run, hist, env, sched, pub, catalog, scan>>

\* status.status_code === 'FINISHED': return true
StatusFinished ==
  /\ ig.pc = "status"
  /\ ig' = [ig EXCEPT !.pc = "waited", !.status = "FINISHED", !.ret = "true",
                      !.log = Append(@, "FINISHED")]
  /\ UNCHANGED <<StoreVars, run, hist, env, sched, pub, catalog, scan>>

\* status.status_code === 'ERROR': throw new Error('Container processing failed')
StatusError ==
  /\ ig.pc = "status"
  /\ ig' = [ig EXCEPT !.pc = "waited", !.status = "ERROR", !.ret = "error"]
  /\ UNCHANGED <<StoreVars, run, hist, env, sched, pub, catalog, scan>>

\* checkContainerStatus: if (data.error) throw, or the fetch throws
StatusThrows ==
  /\ ig.pc = "status"
  /\ ig' = [ig EXCEPT !.pc = "waited", !.status = "none", !.ret = "threw"]
  /\ UNCHANGED <<StoreVars, run, hist, env, sched, pub, catalog, scan>>

\* any other status_code ('IN_PROGRESS', ...): the delay is awaited
StatusOther ==
  /\ ig.pc = "status"
  /\ ig' = [ig EXCEPT !.pc = "delay", !.status = "IN_PROGRESS"]
  /\ UNCHANGED <<StoreVars, run, hist, env, sched, pub, catalog, scan>>

\* await new Promise(resolve => setTimeout(resolve, delayMs)); i++
Delay ==
  /\ ig.pc = "delay"
  /\ ig' = WaitLoop([ig EXCEPT !.i = @ + 1])
  /\ UNCHANGED <<StoreVars, run, hist, env, sched, pub, catalog, scan>>

\* Mutant of WaitReturn: a throw of waitForContainerReady is swallowed.
WaitReturnSwallows ==
  /\ ig.pc = "waited"
  /\ ig' = IF ig.op = "wait" THEN [ig EXCEPT !.pc = "done", !.result = "ready"]
           ELSE IF ig.waiting < ig.n THEN WaitStart(ig, ig.waiting + 1)
           ELSE IF ig.waiting = ig.n THEN [ig EXCEPT !.pc = "carousel"]
           ELSE [ig EXCEPT !.pc = "publish"]
  /\ UNCHANGED <<StoreVars, run, hist, env, sched, pub, catalog, scan>>

\* the caller of waitForContainerReady resumes: the next child, then
\* createCarouselContainer, then publishContainer; a throw ends publishCarousel
WaitReturn ==
  /\ ig.pc = "waited"
  /\ ig' = IF ig.ret # "true"
           THEN [ig EXCEPT !.pc = "done",
                           !.result = IF ig.ret = "error" THEN "error:processing"
                                      ELSE IF ig.ret = "timeout" THEN "error:timeout"
                                      ELSE "error:api"]
           ELSE IF ig.op = "wait" THEN [ig EXCEPT !.pc = "done", !.result = "ready"]
           ELSE IF ig.waiting < ig.n THEN WaitStart(ig, ig.waiting + 1)
           ELSE IF ig.waiting = ig.n THEN [ig EXCEPT !.pc = "carousel"]
           ELSE [ig EXCEPT !.pc = "publish"]
  /\ UNCHANGED <<StoreVars, run, hist, env, sched, pub, catalog, scan>>

\* createCarouselContainer returns data.id; waitForContainerReady(carouselContainerId)
CarouselOk ==
  /\ ig.pc = "carousel"
  /\ ig' = WaitStart([ig EXCEPT !.log = Append(@, "carousel")], ig.n + 1)
  /\ UNCHANGED <<StoreVars, run, hist, env, sched, pub, catalog, scan>>

CarouselFails ==
  /\ ig.pc = "carousel"
  /\ ig' = [ig EXCEPT !.pc = "done", !.result = "error:api"]
  /\ UNCHANGED <<StoreVars, run, hist, env, sched, pub, catalog, scan>>

\* publishContainer returns data.id: return { success: true, mediaId, ... }
PublishOk ==
  /\ ig.pc = "publish"
  /\ ig' = [ig EXCEPT !.pc = "done", !.result = "published", !.log = Append(@, "publish")]
  /\ UNCHANGED <<StoreVars, run, hist, env, sched, pub, catalog, scan>>

\* publishContainer: if (data.error) throw, or the fetch throws
PublishFails ==
  /\ ig.pc = "publish"
  /\ ig' = [ig EXCEPT !.pc = "done", !.result = "error:api", !.log = Append(@, "publish")]
  /\ UNCHANGED <<StoreVars, run, hist, env, sched, pub, catalog, scan>>

\* ------------------------------------------------------- specifications
\* initDB: every video row was ingested with both statuses 'pending'; the default
\* settings rows are auto_blog = 'false' and no openai_api_key.
InitStore ==
  /\ video = [v \in VideoIds |-> NewVideo]
  /\ posts = {}
  /\ nextPostId = 1
  /\ settings = [k \in {"auto_blog", "openai_api_key"} |->
                   IF k = "auto_blog" THEN "false" ELSE NULL]
  /\ pending = {}
  /\ run = [r \in Runs |-> IdleRun]
  /\ hist = [r \in Runs |-> NewHist]
  /\ vhist = [v \in VideoIds |-> NewVHist]
  /\ catalog = VideoIds
  /\ scan = [s \in Scans |-> IdleScan]
  /\ ig = IdleIg
  /\ sched = IdleSched
  /\ pub = IdlePub

Init ==
  /\ InitStore
  /\ \E o \in BOOLEAN : env = [variant |-> "p000", overlap |-> o, patience |-> MaxStall]

Job(r) ==
  \/ MarkProcessing(r)
  \/ SubmitOk(r)
  \/ SubmitFails(r)
  \/ SaveJob(r)
  \/ Sleep(r)
  \/ PollCompleted(r)
  \/ PollFails(r)
  \/ PollTranscribing(r)
  \/ PollOther(r)
  \/ WriteAudio(r)
  \/ WriteCompleted(r)
  \/ Catch(r)

AutoBlog(r) ==
  \/ BlogAuto(r)
  \/ BlogKey(r)
  \/ BlogSelect(r)
  \/ BlogGenOk(r)
  \/ BlogGenFails(r)
  \/ BlogInsertOk(r)
  \/ BlogInsertFails(r)
  \/ BlogMark(r)

Requests ==
  \/ \E r \in Runs, v \in VideoIds, p \in Providers : Transcribe(r, v, p)
  \/ \E S \in SUBSET Runs, p \in Providers : \E ids \in [S -> VideoIds] : BulkTranscribe(ids, p)

\* The orchestration with the default settings (auto_blog = 'false').
Next == (\E r \in Runs : Job(r) \/ BlogAuto(r)) \/ Requests

Spec == Init /\ [][Next]_vars

\* One job whose provider may stay non-terminal for the whole attempt budget.
InitSolo ==
  /\ InitStore
  /\ env = [variant |-> "p000", overlap |-> FALSE, patience |-> MaxAttempts]

NextSolo ==
  \/ \E v \in VideoIds, p \in Providers : Transcribe(1, v, p)
  \/ Job(1)
  \/ BlogAuto(1)

SpecSolo == InitSolo /\ [][NextSolo]_vars

\* Auto-blog: jobs for one video whose provider answers at the first check,
\* while the settings are edited and posts are created and deleted.
BlogVideo == "v1"

InitBlog ==
  /\ InitStore
  /\ \E o \in BOOLEAN : env = [variant |-> "p000", overlap |-> o, patience |-> 0]

NextBlog ==
  \/ \E r \in Runs, p \in Providers : Transcribe(r, BlogVideo, p)
  \/ \E r \in Runs :
        \/ MarkProcessing(r)
        \/ SubmitOk(r)
        \/ SaveJob(r)
        \/ Sleep(r)
        \/ PollCompleted(r)
        \/ WriteCompleted(r)
        \/ AutoBlog(r)
  \/ PutSettings("auto_blog", "true")
  \/ PutSettings("openai_api_key", "sk")
  \/ CreatePost(BlogVideo)
  \/ \E id \in 1..MaxPosts : DeletePost(id)
  \/ \E m \in pending : PostMarksVideo(m) \/ DeleteResetsVideo(m)

SpecBlog == InitBlog /\ [][NextBlog]_vars

\* One video with transcription jobs, audio-only extractions and manual
\* transcript writes.
ExtractJob(r) ==
  \/ ExtractOnlyMark(r)
  \/ ExtractSubmitOk(r)
  \/ ExtractSubmitFails(r)
  \/ ExtractSleep(r)
  \/ ExtractPollCompleted(r)
  \/ ExtractPollFails(r)
  \/ ExtractPollOther(r)
  \/ ExtractSave(r)
  \/ ExtractOnlyCatch(r)

AudioVideo == "v1"

NextAudio ==
  \/ \E r \in Runs, p \in Providers : Transcribe(r, AudioVideo, p)
  \/ \E r \in Runs : ExtractOnly(r, AudioVideo)
  \/ \E r \in Runs : Job(r) \/ BlogAuto(r) \/ ExtractJob(r)
  \/ \E t \in {NULL, "hello"}, st \in {NULL, "failed"} :
        PutTranscript(AudioVideo, t, "manual", st)

SpecAudio == Init /\ [][NextAudio]_vars

\* The handlers that write blog_created / blog_post_id, with no job running.
\* req.body.videoId and req.body.blogPostId may be absent (NULL, NullId).
InitMarks ==
  /\ InitStore
  /\ env = [variant |-> "p000", overlap |-> FALSE, patience |-> 0]

NextMarks ==
  \/ \E v \in VideoIds \cup {NULL} : CreatePost(v)
  \/ \E id \in 1..MaxPosts : DeletePost(id)
  \/ \E m \in pending : PostMarksVideo(m) \/ DeleteResetsVideo(m)
  \/ \E v \in VideoIds, id \in {NullId} \cup (1..MaxPosts) : PutBlogCreated(v, id)

SpecMarks == InitMarks /\ [][NextMarks]_vars

\* The single-file snapshots: one background job on a video whose audio is either
\* untouched or was extracted earlier, with a provider that may never answer.
ExtractedVideo ==
  [NewVideo EXCEPT !.audio_url = "https://old/a.mp3", !.audio_status = "completed"]

InitLegacy ==
  /\ video \in [VideoIds -> {NewVideo, ExtractedVideo}]
  /\ posts = {}
  /\ nextPostId = 1
  /\ settings = [k \in {"auto_blog", "openai_api_key"} |->
                   IF k = "auto_blog" THEN "false" ELSE NULL]
  /\ pending = {}
  /\ run = [r \in Runs |-> IdleRun]
  /\ hist = [r \in Runs |-> NewHist]
  /\ vhist = [v \in VideoIds |-> NewVHist]
  /\ catalog = VideoIds
  /\ scan = [s \in Scans |-> IdleScan]
  /\ ig = IdleIg
  /\ sched = IdleSched
  /\ pub = IdlePub
  /\ \E s \in {"p001", "p002"} : env = [variant |-> s, overlap |-> FALSE, patience |-> Forever]

LegacyJob(r) ==
  \/ LegacySelect(r)
  \/ LegacyMarkProcessing(r)
  \/ ExtractMarkProcessing(r)
  \/ BackendSucceeds(r)
  \/ BackendFails(r)
  \/ SaveAudio(r)
  \/ ExtractCatch(r)
  \/ DownloadOk(r)
  \/ DownloadFails(r)
  \/ AudioDone(r)
  \/ UploadOk(r)
  \/ UploadFails(r)
  \/ LegacySubmitOk(r)
  \/ LegacySubmitFails(r)
  \/ LegacySubmitUnchecked(r)
  \/ LegacySaveJob(r)
  \/ LegacySleep(r)
  \/ LegacyPollCompleted(r)
  \/ LegacyPollError(r)
  \/ LegacyPollPending(r)
  \/ LegacyWriteCompleted(r)
  \/ CleanupOk(r)
  \/ CleanupThrows(r)
  \/ LegacyCatch(r)

NextLegacy ==
  \/ \E v \in VideoIds : LegacyTranscribe(1, v)
  \/ \E v \in VideoIds : ExtractAudio(1, v)
  \/ LegacyJob(1)

SpecLegacy == InitLegacy /\ [][NextLegacy]_vars

\* The event loop runs every continuation of a started job.
FairSpecLegacy == SpecLegacy /\ WF_vars(LegacyJob(1))

\* One run of the transcribe endpoint of part_000 (provider from req.body) or of
\* part_001 (AssemblyAI), on a video whose audio is untouched or was extracted.
RequestProviders == {"openai", "groq"}

InitOne ==
  /\ video \in [VideoIds -> {NewVideo, ExtractedVideo}]
  /\ posts = {}
  /\ nextPostId = 1
  /\ settings = [k \in {"auto_blog", "openai_api_key"} |->
                   IF k = "auto_blog" THEN "false" ELSE NULL]
  /\ pending = {}
  /\ run = [r \in Runs |-> IdleRun]
  /\ hist = [r \in Runs |-> NewHist]
  /\ vhist = [v \in VideoIds |-> NewVHist]
  /\ catalog = VideoIds
  /\ scan = [s \in Scans |-> IdleScan]
  /\ ig = IdleIg
  /\ sched = IdleSched
  /\ pub = IdlePub
  /\ \E s \in {"p000", "p001"} : env = [variant |-> s, overlap |-> FALSE, patience |-> MaxStall]

NextOne ==
  \/ \E v \in VideoIds, p \in RequestProviders : Transcribe(1, v, p)
  \/ \E v \in VideoIds : LegacyTranscribe(1, v)
  \/ env.variant = "p000" /\ (Job(1) \/ BlogAuto(1))
  \/ /\ env.variant = "p001"
     /\ \/ LegacySelect(1)
        \/ LegacyMarkProcessing(1)
        \/ BackendSucceeds(1)
        \/ BackendFails(1)
        \/ SaveAudio(1)
        \/ LegacySubmitOk(1)
        \/ LegacySubmitFails(1)
        \/ LegacySubmitUnchecked(1)
        \/ LegacySaveJob(1)
        \/ LegacySleep(1)
        \/ LegacyPollCompleted(1)
        \/ LegacyPollError(1)
        \/ LegacyPollPending(1)
        \/ LegacyWriteCompleted(1)
        \/ LegacyCatch(1)

SpecOne == InitOne /\ [][NextOne]_vars

\* One call of the Instagram publisher: publishCarousel with any number of
\* images, or waitForContainerReady with a small maxAttempts.
NextCarousel ==
  \/ \E n \in {Absent} \cup (0..MaxImages) : PublishCarousel(n)
  \/ \E m \in 0..MaxWait : WaitForContainerReady(m)
  \/ CreateChildOk
  \/ CreateChildFails
  \/ StatusFinished
  \/ StatusError
  \/ StatusThrows
  \/ StatusOther
  \/ Delay
  \/ WaitReturn
  \/ CarouselOk
  \/ CarouselFails
  \/ PublishOk
  \/ PublishFails

SpecCarousel == InitMarks /\ [][NextCarousel]_vars

\* Auto-scans of a channel whose search lists nothing or the video v1; the store
\* has a row for v2 and may have one for v1;
\* the operator has or has not switched auto_scan_enabled and auto_transcribe on.
ScanSettings ==
  {[k \in {"auto_blog", "openai_api_key", "auto_scan_enabled", "youtube_api_key",
           "auto_transcribe", "last_scan_time"} |->
      CASE k = "auto_blog" -> "false"
        [] k = "openai_api_key" -> "sk"
        [] k = "youtube_api_key" -> "yt"
        [] k = "auto_scan_enabled" -> on[1]
        [] k = "auto_transcribe" -> on[2]
        [] OTHER -> ""] :
     on \in {<<"false", "false">>, <<"true", "false">>, <<"true", "true">>}}

InitScan ==
  /\ video = [v \in VideoIds |-> NewVideo]
  /\ posts = {}
  /\ nextPostId = 1
  /\ settings \in ScanSettings
  /\ pending = {}
  /\ run = [r \in Runs |-> IdleRun]
  /\ hist = [r \in Runs |-> NewHist]
  /\ vhist = [v \in VideoIds |-> NewVHist]
  /\ catalog \in {{"v2"}, VideoIds}
  /\ scan = [s \in Scans |-> IdleScan]
  /\ ig = IdleIg
  /\ sched = IdleSched
  /\ pub = IdlePub
  /\ env = [variant |-> "p000", overlap |-> TRUE, patience |-> MaxStall]

ScanStep(s) ==
  \/ ScanEnabled(s)
  \/ \E F \in {{}, {"v1"}} : ScanFetch(s, F)
  \/ ScanSelect(s)
  \/ ScanInsert(s)
  \/ ScanStamp(s)
  \/ ScanAuto(s)
  \/ ScanKey(s)
  \/ \E r \in Runs : ScanCall(s, r)
  \/ ScanResume(s)

NextScan ==
  \/ \E s \in Scans, src \in {"startup", "timer", "manual"} : ScanTrigger(s, src)
  \/ \E s \in Scans : ScanStep(s)
  \/ \E r \in Runs : Job(r) \/ BlogAuto(r)

SpecScan == InitScan /\ [][NextScan]_vars

\* One auto-scan of a channel with up to two videos, any of which may be new.
InitChannel ==
  /\ video = [v \in VideoIds |-> NewVideo]
  /\ posts = {}
  /\ nextPostId = 1
  /\ settings \in ScanSettings
  /\ pending = {}
  /\ run = [r \in Runs |-> IdleRun]
  /\ hist = [r \in Runs |-> NewHist]
  /\ vhist = [v \in VideoIds |-> NewVHist]
  /\ catalog \in SUBSET VideoIds
  /\ scan = [s \in Scans |-> IdleScan]
  /\ ig = IdleIg
  /\ sched = IdleSched
  /\ pub = IdlePub
  /\ env = [variant |-> "p000", overlap |-> FALSE, patience |-> MaxStall]

ChannelScan ==
  \/ \E src \in {"startup", "timer", "manual"} : ScanTrigger(1, src)
  \/ ScanEnabled(1)
  \/ \E F \in SUBSET VideoIds : ScanFetch(1, F)
  \/ ScanSelect(1)
  \/ ScanInsert(1)
  \/ ScanStamp(1)
  \/ ScanAuto(1)
  \/ ScanKey(1)
  \/ \E r \in Runs : ScanCall(1, r)
  \/ ScanResume(1)

ChannelJobs == \E r \in Runs : Job(r) \/ BlogAuto(r)

NextChannel == ChannelScan \/ ChannelJobs

SpecChannel == InitChannel /\ [][NextChannel]_vars

\* The event loop runs every continuation of the scan and of the jobs it started.
FairSpecChannel == SpecChannel /\ WF_vars(ChannelScan) /\ WF_vars(ChannelJobs)

\* Ingestion: the client posts videos while a scan and its jobs run.
NextIngest ==
  \/ \E v \in VideoIds, t \in Titles : UpsertVideo(v, t)
  \/ ChannelScan
  \/ ChannelJobs

SpecIngest == InitChannel /\ [][NextIngest]_vars

\* ================================================================ claims
Settled(r) == run[r].pc = "done"
Alone(r) == \A q \in Runs : q # r /\ run[q].pc # "idle" => run[q].vid # run[r].vid
LastOn(r) == \A q \in Runs : q > r /\ run[q].pc # "idle" => run[q].vid # run[r].vid
NoneInFlightOn(v) == \A q \in Runs : InFlight(q) => run[q].vid # v

\* C2: a video whose audio_status was already 'completed' when a transcription
\* job started on it (nothing else in flight for it) does not end with
\* audio_status = 'failed' when that job fails.
C2_PriorAudioKept ==
  \A r \in Runs :
    (Settled(r) /\ LastOn(r) /\ NoneInFlightOn(run[r].vid)
       /\ hist[r].audioBefore /\ hist[r].outcome # "completed")
    => video[run[r].vid].audio_status # "failed"

\* C3: transcript_status = 'completed' implies a transcript that is neither NULL
\* nor empty, and transcript_updated_at set.
C3_CompletedHasTranscript ==
  \A v \in VideoIds :
    video[v].transcript_status = "completed"
    => video[v].transcript \notin {NULL, ""} /\ video[v].transcript_updated_at

\* The moves of a status the lifecycle allows: none, a reset to processing, and
\* processing to a terminal value.
StatusMove(a, b) ==
  \/ a = b
  \/ b = "processing" /\ a \in {"pending", "completed", "failed"}
  \/ a = "processing" /\ b \in {"completed", "failed"}

\* C6 (as stated): in every interleaving transcript_status moves only
\* pending -> processing -> completed|failed, and leaves completed or failed only
\* by being reset to processing.
C6_MonotonicAlways ==
  [][\A v \in VideoIds :
       StatusMove(video[v].transcript_status, video'[v].transcript_status)]_vars

\* C6 (amended): the same, for callers that never start a transcription for a
\* video while a job for that video is in flight.
C6_MonotonicWithoutOverlap ==
  [][~env.overlap =>
       \A v \in VideoIds :
         StatusMove(video[v].transcript_status, video'[v].transcript_status)]_vars

C6_Witness ==
  /\ ~env.overlap
  /\ Settled(1) /\ Settled(2) /\ run[1].vid = run[2].vid
  /\ hist[1].outcome = "completed" /\ hist[2].outcome = "failed"
  /\ video[run[2].vid].transcript_status = "failed"

\* C7: a step of the job of one video changes no field of another video's row,
\* and a job that is the only one for its video leaves the terminal status its
\* own provider outcome determines.
C7_BulkIndependence ==
  /\ [][\A r \in Runs, w \in VideoIds :
          (InFlight(r) /\ run'[r] # run[r] /\ w # run[r].vid) => video'[w] = video[w]]_vars
  /\ [](\A r \in Runs :
          (Settled(r) /\ Alone(r))
          => video[run[r].vid].transcript_status =
               IF hist[r].outcome = "completed" THEN "completed" ELSE "failed")

C7_Witness ==
  /\ Settled(1) /\ Settled(2) /\ hist[1].bulk /\ hist[2].bulk
  /\ run[1].vid # run[2].vid
  /\ hist[1].outcome = "failed" /\ hist[2].outcome = "completed"
  /\ video[run[1].vid].transcript_status = "failed"
  /\ video[run[2].vid].transcript_status = "completed"

\* C4: for every video blog_created goes from FALSE to TRUE at most once and the
\* auto-blog step inserts at most one post, whatever jobs complete and whatever
\* posts are created or deleted in between.
C4_BlogOnce ==
  \A v \in VideoIds : vhist[v].blogUps <= 1 /\ vhist[v].autoPosts <= 1

C1_EveryRunSettles ==
  \A r \in Runs :
    (run[r].caller = "transcribe" /\ InFlight(r))
    ~> (Settled(r) /\ video[run[r].vid].transcript_status \in {"completed", "failed"})

\* C5: a job writes a terminal transcript_status exactly once, invokes the blog
\* trigger at most once, and never writes 'failed' after it wrote 'completed'.
C5_OneTerminalWrite ==
  \A r \in Runs :
    /\ hist[r].termWrites <= 1
    /\ hist[r].blogCalls <= 1
    /\ ~hist[r].failedAfterCompleted
    /\ (Settled(r) /\ hist[r].kind = "transcribe") => hist[r].termWrites = 1

\* C8: no transcription job makes more than MaxAttempts status checks.
C8_PollsBounded ==
  \A r \in Runs : hist[r].kind = "transcribe" => hist[r].polls <= MaxAttempts

\* C10: the sources are tried in their fixed order, one after the other; once a
\* source has returned a URL that URL is the result, it is the URL of the last
\* source tried, and no further source is tried.
C10_FallbackOrder ==
  \A r \in Runs :
    LET k == Len(hist[r].tried) IN
      /\ k <= Len(Backends(env.variant))
      /\ hist[r].tried = SubSeq(Backends(env.variant), 1, k)
      /\ hist[r].result # NULL
         => /\ k >= 1
            /\ hist[r].result = UrlOf(Backends(env.variant)[k])
            /\ run[r].pc = "saveAudio" => run[r].audioUrl = hist[r].result
            /\ (Settled(r) /\ hist[r].outcome = "extracted")
               => video[run[r].vid].audio_url = hist[r].result

C10_Witness ==
  /\ Settled(1) /\ hist[1].outcome = "extracted"
  /\ Len(hist[1].tried) = 2
  /\ hist[1].result = UrlOf(Backends(env.variant)[2])
  /\ video[run[1].vid].audio_url = hist[1].result

\* C11: a source that throws or yields no usable URL only makes the next source
\* run; getYouTubeAudioUrl throws only after every source has been tried, and a
\* source is tried only after all sources before it have failed.
C11_ThrowsAfterAllTried ==
  \A r \in Runs :
    /\ hist[r].exhausted
       => hist[r].tried = Backends(env.variant) /\ hist[r].result = NULL
    /\ run[r].pc = "xcatch" => hist[r].exhausted
    /\ run[r].pc = "backend"
       => /\ Len(hist[r].tried) = run[r].backend - 1
          /\ hist[r].result = NULL /\ ~hist[r].exhausted

C11_Witness ==
  /\ Settled(1) /\ hist[1].kind = "extract" /\ hist[1].exhausted
  /\ hist[1].tried = Backends(env.variant)
  /\ video[run[1].vid].audio_status = "failed"

\* C12: a transcription job all of whose audio sources fail ends with
\* transcript_status = 'failed' and audio_status = 'failed', and submits nothing.
C12_ExhaustedFailsBoth ==
  \A r \in Runs :
    (Settled(r) /\ hist[r].kind = "transcribe" /\ hist[r].exhausted)
    => /\ video[run[r].vid].transcript_status = "failed"
       /\ video[run[r].vid].audio_status = "failed"
       /\ hist[r].submits = 0

\* C13: a job whose submission the provider answers with an error payload or a
\* non-success status ends with transcript_status = 'failed', stores no job id
\* of that attempt, and makes no status check.
C13_RejectedNeverPolls ==
  \A r \in Runs :
    hist[r].rejected
    => /\ hist[r].polls = 0
       /\ video[run[r].vid].transcript_job_id # JobOf(r)
       /\ Settled(r) => video[run[r].vid].transcript_status = "failed"

\* C14: a job submits at most once, and every status check it makes asks for the
\* job id its own submission returned, whatever id the row holds.
C14_OwnJobOnly ==
  \A r \in Runs :
    /\ hist[r].submits <= 1
    /\ hist[r].polled \subseteq {JobOf(r)}
    /\ hist[r].polls > 0 => hist[r].submits = 1
    /\ run[r].pc \in {"sleep", "poll", "writeAudio", "writeCompleted"} => run[r].jobId = JobOf(r)

C14_Witness ==
  /\ run[1].vid = run[2].vid /\ InFlight(1)
  /\ hist[1].polls = 2 /\ hist[1].polled = {JobOf(1)}
  /\ video[run[1].vid].transcript_job_id = JobOf(2)

BlogPcs == {"blogAuto", "blogKey", "blogSelect", "blogGen", "blogInsert", "blogMark"}

\* C15: checkAutoBlogCreation runs only after the job wrote 'completed'; the
\* generation request is made only when the job read auto_blog = 'true' and a
\* row with blog_created false and a non-empty transcript; a job that reads
\* another value of auto_blog returns at once, changing no row and no post.
C15_GuardedBlogTrigger ==
  /\ [](\A r \in Runs :
          /\ run[r].pc \in BlogPcs => hist[r].wroteCompleted
          /\ hist[r].blogCalls > 0
             => /\ hist[r].wroteCompleted
                /\ hist[r].sawAuto = "true"
                /\ ~hist[r].sawRow.blog_created
                /\ hist[r].sawRow.transcript \notin {NULL, ""}
          /\ hist[r].sawAuto \notin {"unread", "true"}
             => hist[r].blogCalls = 0 /\ Settled(r))
  /\ [][\A r \in Runs :
          (run[r].pc = "blogAuto" /\ run'[r] # run[r] /\ getSetting("auto_blog") # "true")
          => video' = video /\ posts' = posts /\ Settled(r)']_vars

C15_Witness ==
  /\ Settled(1) /\ hist[1].outcome = "completed" /\ hist[1].sawAuto = "false"
  /\ hist[1].blogCalls = 0
  /\ hist[2].blogCalls = 1 /\ hist[2].sawAuto = "true"
  /\ ~hist[2].sawRow.blog_created /\ hist[2].sawRow.transcript = "hello"

\* C16: when the generation request or the post insert of the auto-blog step
\* fails, the step changes no field of any video, and the job returns without
\* entering its catch: its only terminal write stays the 'completed' one.
C16_BlogFailureIsSilent ==
  /\ [](\A r \in Runs :
          hist[r].blogFailed
          => Settled(r) /\ hist[r].termWrites = 1 /\ hist[r].wroteCompleted
               /\ ~hist[r].failedAfterCompleted)
  /\ [][\A r \in Runs :
          (run[r].pc \in {"blogGen", "blogInsert"} /\ hist'[r].blogFailed)
          => video' = video /\ posts' = posts]_vars

C16_Witness ==
  /\ Settled(1) /\ hist[1].blogFailed /\ run[2].pc = "idle"
  /\ video[run[1].vid].transcript_status = "completed"
  /\ video[run[1].vid].transcript = "hello"
  /\ video[run[1].vid].transcript_updated_at
  /\ ~video[run[1].vid].blog_created

\* C17: in every state blog_created = TRUE implies blog_post_id is not NULL.
C17_CreatedHasPost ==
  \A v \in VideoIds : video[v].blog_created => video[v].blog_post_id # NullId

\* C18: in every state transcript_status = 'completed' implies
\* audio_status = 'completed'.
C18_CompletedNeedsAudio ==
  \A v \in VideoIds :
    video[v].transcript_status = "completed" => video[v].audio_status = "completed"

\* The phase of startTranscription a program counter belongs to.
Phase(pc) ==
  CASE pc = "idle" -> 0
    [] pc = "start" -> 1
    [] pc = "submit" -> 2
    [] pc = "saveJob" -> 3
    [] pc \in {"sleep", "poll", "writeAudio"} -> 4
    [] pc \in {"writeCompleted", "catch"} -> 5
    [] pc \in BlogPcs -> 6
    [] OTHER -> 7

\* C19: a job never goes back to an earlier phase (mark, submission, status
\* checks, terminal write, auto-blog trigger); it leaves the first phase by
\* writing 'processing'; it checks a status only after its one submission, calls
\* the auto-blog step only after its 'completed' write, and after a terminal
\* write makes no submission and no status check.
C19_PhasesInOrder ==
  /\ [][\A r \in Runs :
          /\ Phase(run'[r].pc) >= Phase(run[r].pc)
          /\ (run[r].pc = "start" /\ run'[r].pc # "start")
             => /\ run'[r].pc = "submit"
                /\ video'[run[r].vid].transcript_status = "processing"
          /\ hist[r].termWrites > 0
             => hist'[r].polls = hist[r].polls /\ hist'[r].submits = hist[r].submits]_vars
  /\ [](\A r \in Runs :
          /\ hist[r].polls > 0 => hist[r].submits = 1
          /\ run[r].pc \in BlogPcs => hist[r].wroteCompleted /\ hist[r].termWrites = 1
          /\ hist[r].termWrites > 0 => run[r].pc \in BlogPcs \cup {"done"})

C19_Witness ==
  /\ Settled(1) /\ hist[1].outcome = "completed" /\ hist[1].sawTranscribing
  /\ hist[1].polls = 2 /\ hist[1].submits = 1 /\ hist[1].termWrites = 1
  /\ video[run[1].vid].transcript_status = "completed"

\* C20: for callers that start the second job on a video after the first has
\* settled, the second job is accepted, resets the status to 'processing', and
\* leaves the terminal statuses that its own provider answers determine,
\* whatever the first job left.
C20_SecondRunIndependent ==
  ~env.overlap =>
    \A r, q \in Runs :
      (q < r /\ Settled(q) /\ run[r].pc # "idle" /\ run[r].vid = run[q].vid /\ LastOn(r))
      => /\ run[r].pc \in {"submit", "saveJob", "sleep", "poll"}
            => video[run[r].vid].transcript_status = "processing"
         /\ Settled(r)
            => /\ video[run[r].vid].transcript_status =
                    IF hist[r].outcome = "completed" THEN "completed" ELSE "failed"
               /\ video[run[r].vid].audio_status =
                    IF hist[r].outcome = "completed" \/ hist[r].sawTranscribing
                    THEN "completed" ELSE "failed"

C20_Witness ==
  /\ ~env.overlap
  /\ Settled(1) /\ Settled(2) /\ run[1].vid = run[2].vid
  /\ hist[1].outcome = "failed" /\ hist[2].outcome = "completed"
  /\ video[run[2].vid].transcript_status = "completed"
  /\ video[run[2].vid].audio_status = "completed"

\* C21: a run of part_000 or part_001 whose submission returned a job id and
\* whose status checks ended with 'completed' and text T leaves its video with
\* audio_status = 'completed', transcript_status = 'completed', transcript = T
\* and transcript_model = the provider the run was started with.
C21_HappyPath ==
  \A r \in Runs :
    (Settled(r) /\ hist[r].outcome = "completed" /\ ~hist[r].rejected)
    => /\ video[run[r].vid].audio_status = "completed"
       /\ video[run[r].vid].transcript_status = "completed"
       /\ video[run[r].vid].transcript = hist[r].text
       /\ video[run[r].vid].transcript_model = hist[r].provider

C21_Witness ==
  /\ Settled(1) /\ hist[1].outcome = "completed" /\ hist[1].polls = 2
  /\ hist[1].text = "hello" /\ hist[1].provider = "groq"
  /\ video[run[1].vid].transcript = "hello"
  /\ video[run[1].vid].transcript_model = "groq"

\* C22: transcript_updated_at changes only in a step that leaves
\* transcript_status = 'completed', and a write that leaves transcript_status
\* 'failed' or 'processing' changes none of transcript, transcript_model and
\* transcript_updated_at.
C22_UpdatedAtOnlyOnCompletion ==
  [][\A v \in VideoIds :
       /\ video'[v].transcript_updated_at # video[v].transcript_updated_at
          => video'[v].transcript_status = "completed"
       /\ (video'[v] # video[v] /\ video'[v].transcript_status \in {"failed", "processing"})
          => /\ video'[v].transcript = video[v].transcript
             /\ video'[v].transcript_model = video[v].transcript_model
             /\ video'[v].transcript_updated_at = video[v].transcript_updated_at]_vars

\* C23: a transcription run reaches the submission without an extraction call
\* exactly when its video had an audio url and audio_status = 'completed' when
\* it started; otherwise the url a source returned and audio_status =
\* 'completed' are in the row when the job is submitted.
C23_SkipExactlyWhenAudioReady ==
  \A r \in Runs :
    (hist[r].kind = "transcribe" /\ run[r].pc = "submit")
    => IF hist[r].audioBefore
       THEN hist[r].tried = <<>>
       ELSE /\ hist[r].result # NULL
            /\ video[run[r].vid].audio_url = hist[r].result
            /\ video[run[r].vid].audio_status = "completed"

\* C24: every step of an audio-only extraction changes no column of any video
\* other than audio_url and audio_status of its own video, and the step with
\* which it ends leaves audio_status = 'completed' with an audio_url, or
\* audio_status = 'failed'.
C24_ExtractTouchesAudioOnly ==
  [][\A r \in Runs :
       (hist[r].kind = "extract" /\ run[r].pc # "idle" /\ run'[r] # run[r])
       => /\ \A v \in VideoIds :
               video'[v] = IF v = run[r].vid
                           THEN [video[v] EXCEPT !.audio_url = video'[v].audio_url,
                                                 !.audio_status = video'[v].audio_status]
                           ELSE video[v]
          /\ posts' = posts
          /\ run'[r].pc = "done"
             => \/ /\ video'[run[r].vid].audio_status = "completed"
                   /\ video'[run[r].vid].audio_url \notin {NULL, ""}
                \/ video'[run[r].vid].audio_status = "failed"]_vars

C24_Witness ==
  \E r \in Runs :
    /\ Settled(r) /\ hist[r].kind = "extract" /\ hist[r].outcome = "extracted"
    /\ video[run[r].vid].audio_status = "completed"
    /\ video[run[r].vid].audio_url # NULL
    /\ video[run[r].vid].transcript_status = "completed"
    /\ video[run[r].vid].transcript = "hello"

\* C25: a publishCarousel call whose image list is absent or has fewer than 2
\* or more than 10 entries ends with the matching error, has created no media
\* container and has made no call to the Instagram API; a call with 2 to 10
\* images passes the guards.
C25_CarouselNeedsTwoToTen ==
  (ig.op = "publish")
  => IF ig.n = Absent \/ ig.n < MinImages \/ ig.n > MaxCarousel
     THEN /\ ig.pc = "done"
          /\ ig.result = (IF ig.n > MaxCarousel THEN "error:max" ELSE "error:min")
          /\ ig.made = 0
          /\ ~ig.called
     ELSE /\ ig.result \notin {"error:min", "error:max"}
          /\ ig.called

C25_Witness ==
  /\ ig.op = "publish" /\ ig.n = MaxCarousel + 1
  /\ ig.pc = "done" /\ ig.result = "error:max" /\ ~ig.called

\* C26: a waitForContainerReady call makes at most maxAttempts status checks; it
\* returns true only on a FINISHED check, ends on an ERROR check with no further
\* check, and reports the timeout after exactly maxAttempts checks none of which
\* was FINISHED or ERROR.
C26_WaitBounded ==
  (ig.op # "none")
  => /\ ig.checks <= ig.maxAttempts
     /\ ig.ret = "true" => ig.status = "FINISHED"
     /\ ig.status = "FINISHED" => ig.ret = "true"
     /\ ig.status = "ERROR" => ig.ret = "error" /\ ig.pc \in {"waited", "done"}
     /\ ig.ret = "error" => ig.status = "ERROR"
     /\ ig.ret = "timeout" => /\ ig.checks = ig.maxAttempts
                              /\ ig.status \notin {"FINISHED", "ERROR"}
     /\ ig.pc = "status" => ig.checks = ig.i + 1

C26_Witness ==
  /\ ig.op = "publish" /\ ig.ret = "timeout" /\ ig.checks = DefaultMaxAttempts
  /\ ig.pc = "done" /\ ig.result = "error:timeout"

\* C27: once the transcribe endpoint has acknowledged a request the video's
\* transcript_status is 'processing' (or a later status of that run, never the
\* status from before the request), and when the run's submission is issued
\* both statuses have been written as 'processing'.
C27_AcknowledgedIsProcessing ==
  \A r \in Runs :
    (hist[r].kind = "transcribe" /\ ~hist[r].bulk /\ Alone(r))
    => /\ run[r].pc = "start" => video[run[r].vid].transcript_status = "processing"
       /\ run[r].pc = "submit" => /\ video[run[r].vid].transcript_status = "processing"
                                  /\ video[run[r].vid].audio_status = "processing"

\* C28: the step that takes the answer of a status check writes nothing to the
\* video ('extracting' is followed by no write at all); the write that follows
\* a 'transcribing' answer sets audio_status = 'completed' and nothing else, and
\* changes nothing when audio_status is already 'completed'; a run that saw
\* 'transcribing' and then failed or timed out leaves transcript_status =
\* 'failed' and audio_status = 'completed'.
C28_TicksRefineAudioOnly ==
  /\ [][\A r \in Runs :
          /\ (run[r].pc = "poll" /\ run'[r].pc # "poll")
             => /\ video' = video
                /\ run'[r].pc \in {"sleep", "writeAudio", "writeCompleted", "catch"}
          /\ (run[r].pc = "writeAudio" /\ run'[r].pc # "writeAudio")
             => /\ video' = [video EXCEPT ![run[r].vid].audio_status = "completed"]
                /\ video[run[r].vid].audio_status = "completed" => video' = video]_vars
  /\ [](\A r \in Runs :
          (Settled(r) /\ Alone(r) /\ hist[r].sawTranscribing
             /\ hist[r].outcome \in {"failed", "timeout"})
          => /\ video[run[r].vid].transcript_status = "failed"
             /\ video[run[r].vid].audio_status = "completed")

C28_Witness ==
  /\ Settled(1) /\ hist[1].sawTranscribing /\ hist[1].outcome = "timeout"
  /\ hist[1].polls = MaxAttempts
  /\ video[run[1].vid].transcript_status = "failed"
  /\ video[run[1].vid].audio_status = "completed"

\* C29: a status check that throws (or reports 'failed') ends the run at once:
\* control is in the catch block, whose write leaves transcript_status =
\* 'failed'; the run makes no further status check, whatever is left of its
\* attempt budget, and no other run checks its job id.
C29_ThrowingCheckEndsRun ==
  /\ [][\A r \in Runs :
          (hist[r].kind = "transcribe" /\ hist[r].outcome = "failed")
          => /\ hist'[r].polls = hist[r].polls
             /\ hist'[r].polled = hist[r].polled
             /\ hist'[r].submits = hist[r].submits
             /\ (run[r].pc = "catch" /\ run'[r].pc # "catch")
                => /\ run'[r].pc = "done"
                   /\ video'[run[r].vid].transcript_status = "failed"]_vars
  /\ [](\A r \in Runs :
          (hist[r].kind = "transcribe" /\ hist[r].outcome = "failed")
          => /\ run[r].pc \in {"catch", "done"}
             /\ \A q \in Runs : q # r => JobOf(r) \notin hist[q].polled)

C29_Witness ==
  /\ Settled(1) /\ hist[1].outcome = "failed" /\ hist[1].polls = 1
  /\ hist[1].polled = {JobOf(1)} /\ hist[1].termWrites = 1
  /\ video[run[1].vid].transcript_status = "failed"
  /\ hist[1].polls < MaxAttempts

\* C30: the scans start at most one transcription for each video, and a scan
\* starts transcriptions only for videos that had no row when it read the ids
\* of the store.
C30_AutoTranscribedOnce ==
  /\ \A v \in VideoIds : vhist[v].autoStarts <= 1
  /\ \A s \in Scans : scan[s].pc \in {"transcribe", "await"}
                      => scan[s].todo \cap scan[s].existing = {}

\* C31: the jobs of one auto-scan run one at a time in the order of the
\* search result: a job starts only after the job before it has written its
\* terminal status and returned, and after a job that failed or timed out the
\* job of the next new video is still started.
C31_ScanTranscribesInTurn ==
  /\ [](\A r \in Runs :
          run[r].pc # "idle"
          => /\ run[r].vid \in scan[1].new
             /\ \A q \in Runs : q < r => /\ Settled(q)
                                         /\ hist[q].termWrites = 1
                                         /\ run[q].vid = FirstOf({run[q].vid, run[r].vid})
                                         /\ run[q].vid # run[r].vid)
  /\ \A r \in Runs :
       (r + 1 \in Runs /\ Settled(r) /\ hist[r].outcome \in {"failed", "timeout"}
          /\ scan[1].todo # {})
       ~> (r + 1 \in Runs /\ run[r + 1].pc # "idle")

C31_Witness ==
  /\ Settled(1) /\ hist[1].outcome = "failed" /\ run[1].vid = "v1"
  /\ video["v1"].transcript_status = "failed"
  /\ Settled(2) /\ hist[2].outcome = "completed" /\ run[2].vid = "v2"
  /\ scan[1].pc = "done"

\* C32: a step that ingests a video that has a row (its metadata changes, or
\* the scan's INSERT finds the id) leaves every orchestration column of the row
\* unchanged; the step that gives a video its row creates it with both statuses
\* 'pending' and no audio, transcript or blog; a video without a row has no
\* orchestration state.
C32_IngestKeepsState ==
  /\ [][\A v \in VideoIds :
          /\ (v \in catalog /\ video'[v].title # video[v].title)
             => video'[v] = [video[v] EXCEPT !.title = video'[v].title]
          /\ (v \in catalog /\ \E s \in Scans : /\ scan[s].pc = "insert"
                                               /\ scan'[s] # scan[s]
                                               /\ FirstOf(scan[s].todo) = v)
             => video'[v] = video[v]
          /\ (v \notin catalog /\ v \in catalog')
             => video'[v] = [NewVideo EXCEPT !.title = video'[v].title]
          /\ catalog \subseteq catalog']_vars
  /\ [](\A v \in VideoIds : v \notin catalog => video[v] = NewVideo)

C32_Witness ==
  /\ video["v1"].title = "b" /\ video["v1"].transcript_status = "completed"
  /\ video["v1"].transcript = "hello" /\ video["v1"].audio_status = "completed"
  /\ video["v1"].transcript_job_id # NULL
  /\ Settled(1) /\ run[1].vid = "v1"

\* C33: when no handler is between its two statements, a video with
\* blog_created = FALSE is referenced by no post, and a video with
\* blog_created = TRUE has the post named by its blog_post_id.
C33_BlogFlagMatchesPosts ==
  (pending = {} /\ \A r \in Runs : run[r].pc # "blogMark")
  => \A v \in VideoIds :
       /\ ~video[v].blog_created => \A p \in posts : p.video_id # v
       /\ video[v].blog_created => \E p \in posts : p.id = video[v].blog_post_id


\* ------------------------------------------- posts: publication columns
\* CURRENT_TIMESTAMP and scheduledAt are minutes 0..MaxTime; the scheduled-posts
\* check runs once a minute.
MaxTime == 2
Times == 0..MaxTime
PostIds == 1..MaxPosts
PostStatuses == {"draft", "published", "scheduled"}

Later(t) == IF t < MaxTime THEN t + 1 ELSE MaxTime

HasPost(p) == p \in 1..Len(sched.rows)

SetRow(p, row) == [sched EXCEPT !.rows[p] = row]

\* POST /api/posts: postStatus = status || 'draft'; published_at is new Date() only for
\* 'published'; scheduled_at is not among the inserted columns
PostInsert(status) ==
  /\ Len(sched.rows) < MaxPosts
  /\ LET postStatus == IF status = NULL THEN "draft" ELSE status
     IN sched' = [sched EXCEPT !.rows = Append(@,
                    [status |-> postStatus,
                     published_at |-> IF postStatus = "published" THEN sched.now ELSE Absent,
                     scheduled_at |-> Absent])]
  /\ UNCHANGED <<StoreVars, run, hist, env, catalog, scan, ig, pub>>

\* PUT /api/posts/:id/publish
PutPublish(p) ==
  /\ HasPost(p)
  /\ sched' = SetRow(p, [status |-> "published", published_at |-> sched.now,
                         scheduled_at |-> Absent])
  /\ UNCHANGED <<StoreVars, run, hist, env, catalog, scan, ig, pub>>

\* PUT /api/posts/:id/schedule: 400 without scheduledAt; else status and scheduled_at
\* are written and published_at is left as it is
PutSchedule(p, at) ==
  /\ HasPost(p)
  /\ sched' = IF at = Absent THEN sched
              ELSE SetRow(p, [sched.rows[p] EXCEPT !.status = "scheduled", !.scheduled_at = at])
  /\ UNCHANGED <<StoreVars, run, hist, env, catalog, scan, ig, pub>>

\* PUT /api/posts/:id/unpublish
PutUnpublish(p) ==
  /\ HasPost(p)
  /\ sched' = SetRow(p, [status |-> "draft", published_at |-> Absent, scheduled_at |-> Absent])
  /\ UNCHANGED <<StoreVars, run, hist, env, catalog, scan, ig, pub>>

\* PUT /api/posts/:id, SELECT * FROM posts WHERE id: status || post.status is fixed here
PutPostRead(p, status) ==
  /\ HasPost(p)
  /\ sched.edit = <<>>
  /\ sched' = [sched EXCEPT !.edit =
                 <<[id |-> p, status |-> IF status = NULL THEN sched.rows[p].status ELSE status]>>]
  /\ UNCHANGED <<StoreVars, run, hist, env, catalog, scan, ig, pub>>

\* PUT /api/posts/:id, UPDATE posts SET ..., status = $7: neither published_at nor
\* scheduled_at is among the written columns
PutPostWrite ==
  /\ sched.edit # <<>>
  /\ LET e == sched.edit[1]
     IN sched' = [sched EXCEPT !.rows[e.id].status = e.status, !.edit = <<>>]
  /\ UNCHANGED <<StoreVars, run, hist, env, catalog, scan, ig, pub>>

\* the row after UPDATE ... WHERE status = 'scheduled' AND scheduled_at <= CURRENT_TIMESTAMP
\* at minute t (a NULL scheduled_at compares as unknown and does not match)
Due(row, t) == row.status = "scheduled" /\ row.scheduled_at # Absent /\ row.scheduled_at <= t

TickRow(row, t) ==
  IF Due(row, t) THEN [row EXCEPT !.status = "published", !.published_at = t] ELSE row

\* setInterval(..., 60000): a minute has passed and the scheduled-posts check runs
Tick ==
  /\ LET t == Later(sched.now)
     IN sched' = [sched EXCEPT !.now = t,
                               !.rows = [p \in 1..Len(sched.rows) |-> TickRow(sched.rows[p], t)]]
  /\ UNCHANGED <<StoreVars, run, hist, env, catalog, scan, ig, pub>>

NextPosts ==
  \/ \E status \in PostStatuses \cup {NULL} : PostInsert(status)
  \/ \E p \in PostIds : PutPublish(p)
  \/ \E p \in PostIds, at \in Times \cup {Absent} : PutSchedule(p, at)
  \/ \E p \in PostIds : PutUnpublish(p)
  \/ \E p \in PostIds, status \in PostStatuses \cup {NULL} : PutPostRead(p, status)
  \/ PutPostWrite
  \/ Tick

\* The posts table under the request handlers of the admin panel and the scheduler.
SpecPosts == InitMarks /\ [][NextPosts]_vars

\* setInterval fires the check every minute for as long as the process runs, and a
\* PUT /api/posts/:id that has read its row goes on to its UPDATE.
FairSpecPosts == SpecPosts /\ WF_vars(Tick) /\ WF_vars(PutPostWrite)

\* C34: for every post, status = 'published' exactly when published_at is non-null,
\* and status = 'scheduled' implies scheduled_at is non-null.
C34_StatusMatchesTimestamps ==
  \A p \in PostIds : HasPost(p) =>
    /\ (sched.rows[p].status = "published") <=> (sched.rows[p].published_at # Absent)
    /\ sched.rows[p].status = "scheduled" => sched.rows[p].scheduled_at # Absent

\* C35: every post with status 'scheduled' eventually leaves that status: a tick
\* publishes it once scheduled_at has passed, unless a request changed it before.
C35_ScheduledEventuallyPublished ==
  \A p \in PostIds :
    (HasPost(p) /\ sched.rows[p].status = "scheduled")
      ~> (HasPost(p) /\ sched.rows[p].status # "scheduled")


\* the calls of a publishCarousel of n images that reached publishContainer
RECURSIVE Repeat(_, _)
Repeat(x, k) == IF k = 0 THEN <<>> ELSE <<x>> \o Repeat(x, k - 1)

FullOrder(n) ==
  Repeat("child", n) \o Repeat("FINISHED", n) \o <<"carousel", "FINISHED", "publish">>

Logged(x) == \E k \in 1..Len(ig.log) : ig.log[k] = x

\* C36: publishCarousel reaches the publish step only after all children were
\* created, each child was reported FINISHED, the carousel container was created
\* and reported FINISHED, in that order; after a container reported ERROR or a
\* wait timed out, no publish step was or will be made.
C36_PublishAfterAllFinished ==
  ig.op = "publish" =>
    /\ (ig.pc = "publish" => ig.log \o <<"publish">> = FullOrder(ig.n))
    /\ (Logged("publish") => ig.log = FullOrder(ig.n))
    /\ (ig.ret \in {"error", "timeout"} =>
          ~Logged("publish") /\ ig.pc \in {"waited", "done"})
    /\ (ig.result \in {"error:processing", "error:timeout"} => ~Logged("publish"))

C36_Witness ==
  /\ ig.op = "publish"
  /\ ig.n = 3
  /\ ig.result = "published"
  /\ ig.log = FullOrder(3)

\* ------------------------- POST /api/instagram/publish/:carouselId (part_004)
\* pub.tenant: ig_tenants has no row for tenantId, a row without ig_access_token or
\* ig_user_id, or a connected row. pub.carousel: carousel_posts has a row for
\* (carouselId, tenantId); pub.slides its number of slides (Absent: slides is null);
\* pub.row its status and ig_media_id, pub.before their values at the request.
Respond(code) == [pub EXCEPT !.pc = "done", !.response = code]

\* the request arrives: SELECT * FROM ig_tenants WHERE id = $1 is issued
PublishRequest ==
  /\ pub.pc = "idle"
  /\ pub' = [pub EXCEPT !.pc = "tenant"]
  /\ UNCHANGED <<StoreVars, run, hist, env, sched, catalog, scan, ig>>

\* 404 'Tenant not found', 400 'Instagram not connected for this tenant', or
\* SELECT * FROM carousel_posts WHERE id = $1 AND tenant_id = $2 is issued
TenantRow ==
  /\ pub.pc = "tenant"
  /\ pub' = IF pub.tenant = "none" THEN Respond(404)
            ELSE IF pub.tenant = "unconnected" THEN Respond(400)
            ELSE [pub EXCEPT !.pc = "carousel"]
  /\ UNCHANGED <<StoreVars, run, hist, env, sched, catalog, scan, ig>>

\* 404 'Carousel not found'; slides.map on null throws into the catch (500); else
\* publishCarousel({ ..., imageUrls, caption }) is called with one URL per slide
CarouselRow ==
  /\ pub.pc = "carousel"
  /\ ig.pc = "idle"
  /\ IF ~pub.carousel THEN pub' = Respond(404) /\ ig' = ig
     ELSE IF pub.slides = Absent THEN pub' = Respond(500) /\ ig' = ig
     ELSE /\ pub' = [pub EXCEPT !.pc = "publishing"]
          /\ ig' = IF CarouselGuard(pub.slides) = "ok"
                   THEN [ig EXCEPT !.op = "publish", !.n = pub.slides, !.pc = "create",
                                   !.called = TRUE]
                   ELSE [ig EXCEPT !.op = "publish", !.n = pub.slides, !.pc = "done",
                                   !.result = CarouselGuard(pub.slides)]
  /\ UNCHANGED <<StoreVars, run, hist, env, sched, catalog, scan>>

\* pool.query rejects at either SELECT: catch, 500
SelectFails ==
  /\ pub.pc \in {"tenant", "carousel"}
  /\ pub' = Respond(500)
  /\ UNCHANGED <<StoreVars, run, hist, env, sched, catalog, scan, ig>>

\* Mutant of PublishReturns: a throw of publishCarousel is not propagated.
PublishReturnsAlways ==
  /\ pub.pc = "publishing"
  /\ ig.pc = "done"
  /\ pub' = [pub EXCEPT !.pc = "update"]
  /\ UNCHANGED <<StoreVars, run, hist, env, sched, catalog, scan, ig>>

\* await publishCarousel(...) settles: its result goes to the UPDATE, its throw to
\* the catch (500)
PublishReturns ==
  /\ pub.pc = "publishing"
  /\ ig.pc = "done"
  /\ pub' = IF ig.result = "published" THEN [pub EXCEPT !.pc = "update"] ELSE Respond(500)
  /\ UNCHANGED <<StoreVars, run, hist, env, sched, catalog, scan, ig>>

\* UPDATE carousel_posts SET status = 'published', published_at = CURRENT_TIMESTAMP,
\* ig_media_id = result.mediaId WHERE id = carouselId; res.json({ success: true, ... })
UpdateCarousel ==
  /\ pub.pc = "update"
  /\ pub' = [Respond(200) EXCEPT !.row = [status |-> "published", ig_media_id |-> "new"]]
  /\ UNCHANGED <<StoreVars, run, hist, env, sched, catalog, scan, ig>>

\* the UPDATE rejects: catch, 500
UpdateFails ==
  /\ pub.pc = "update"
  /\ pub' = Respond(500)
  /\ UNCHANGED <<StoreVars, run, hist, env, sched, catalog, scan, ig>>

\* One publish request against any tenant and carousel rows; a found carousel is a
\* draft or was published before.
CarouselRows ==
  {[status |-> "draft", ig_media_id |-> NULL], [status |-> "published", ig_media_id |-> "old"]}

InitPublish ==
  /\ video = [v \in VideoIds |-> NewVideo]
  /\ posts = {}
  /\ nextPostId = 1
  /\ settings = [k \in {"auto_blog", "openai_api_key"} |->
                   IF k = "auto_blog" THEN "false" ELSE NULL]
  /\ pending = {}
  /\ run = [r \in Runs |-> IdleRun]
  /\ hist = [r \in Runs |-> NewHist]
  /\ vhist = [v \in VideoIds |-> NewVHist]
  /\ env = [variant |-> "p000", overlap |-> FALSE, patience |-> 0]
  /\ catalog = VideoIds
  /\ scan = [s \in Scans |-> IdleScan]
  /\ ig = IdleIg
  /\ sched = IdleSched
  /\ \E t \in {"none", "unconnected", "connected"}, c \in BOOLEAN,
        n \in {Absent} \cup (0..MaxImages), row \in CarouselRows :
       pub = IF c THEN [IdlePub EXCEPT !.tenant = t, !.carousel = TRUE, !.slides = n,
                                        !.row = row, !.before = row]
             ELSE [IdlePub EXCEPT !.tenant = t]

NextPublish ==
  \/ PublishRequest
  \/ TenantRow
  \/ CarouselRow
  \/ SelectFails
  \/ PublishReturns
  \/ UpdateCarousel
  \/ UpdateFails
  \/ CreateChildOk
  \/ CreateChildFails
  \/ StatusFinished
  \/ StatusError
  \/ StatusThrows
  \/ StatusOther
  \/ Delay
  \/ WaitReturn
  \/ CarouselOk
  \/ CarouselFails
  \/ PublishOk
  \/ PublishFails

SpecPublish == InitPublish /\ [][NextPublish]_vars

\* C37: the carousel row is changed only to status 'published' with the media id
\* returned by publishCarousel, after publishCarousel succeeded; with no tenant, no
\* carousel, a tenant that is not connected, or a publishCarousel that did not
\* succeed (container ERROR, timeout, API error), the row is as it was.
C37_RowPublishedOnlyAfterSuccess ==
  /\ pub.row # pub.before =>
       /\ ig.result = "published"
       /\ pub.response = 200
       /\ pub.row = [status |-> "published", ig_media_id |-> "new"]
  /\ (pub.tenant # "connected" \/ ~pub.carousel \/ ig.result # "published")
       => pub.row = pub.before
  /\ pub.response \in {400, 404, 500} => pub.row = pub.before
  /\ pub.response = 200 => pub.row # pub.before

C37_Witness ==
  /\ pub.response = 200
  /\ pub.before.status = "draft"
  /\ pub.row = [status |-> "published", ig_media_id |-> "new"]
  /\ ig.result = "published"
====
